---- MODULE Spec2Model ----
(***************************************************************************)
(* Cart + order consistency core of the e-commerce backend.                *)
(*                                                                         *)
(* The relational store (products, customers, orders, order items) and the *)
(* cache (one cart document per key) are the state; every service function *)
(* is a process whose steps are the code between two awaits.               *)
(*                                                                         *)
(* Money is counted in thousandths of the currency unit, so that a price   *)
(* with more than two decimals (the product schema admits any positive     *)
(* number) and the rounding of toFixed(2) can both be written with         *)
(* integers.  Binary floating point error is not modelled.                 *)
(***************************************************************************)
EXTENDS Integers, Sequences, FiniteSets, TLC

\* ------------------------------------------------------------------ bounds
MaxQty == 2      \* largest quantity a request names (the schemas admit up to 100)
MaxOrders == 2   \* number of ids the order sequence hands out
MaxCartCalls == 3  \* number of cart service calls in a run

Procs == {1, 2}                 \* concurrent requests of one kind
ProductIds == {1, 2}            \* rows of the product table
RequestProductIds == {1, 2, 3}  \* product 3 is not in the store
RequestCustomerIds == {1, 2}    \* customer 2 is not in the store
RepricedProductIds == {1}       \* the product whose price is changed
PriceChoices == {2500, 1004}    \* prices an administrator sets: 2.50 and 1.004

VARIABLES
  products,    \* product table: id -> [name, price, stock_quantity]
  customers,   \* customer table: id -> [total_orders, total_spent, last_purchase_date]
  orders,      \* order table: id -> [customer_id, status, total]
  orderItems,  \* order item table, rows in insertion order
  orderSeq,    \* last value handed out by the order id sequence
  co,          \* createOrder calls in flight, one per process
  us,          \* updateOrderStatus calls in flight, one per process
  cache,       \* the cache: cart key -> stored cart document
  ttl,         \* the cache: cart key -> seconds the key has left to live
  cc,          \* cart service calls in flight, one per process
  cartCalls    \* number of cart service calls made so far

dbVars == <<products, customers, orders, orderItems, orderSeq>>
cartVars == <<cache, ttl, cc, cartCalls>>
vars == <<products, customers, orders, orderItems, orderSeq, co, us, cache, ttl,
          cc, cartCalls>>

\* ----------------------------------------------------------------- helpers
Range(s) == {s[i] : i \in 1..Len(s)}

RECURSIVE SumSeq(_)
SumSeq(s) == IF s = <<>> THEN 0 ELSE Head(s) + SumSeq(Tail(s))

RECURSIVE FilterSeq(_, _)
\* Array.prototype.filter with the predicate "is a member of keep"
FilterSeq(s, keep) ==
  IF s = <<>> THEN <<>>
  ELSE IF Head(s) \in keep THEN <<Head(s)>> \o FilterSeq(Tail(s), keep)
       ELSE FilterSeq(Tail(s), keep)

\* The store as one value, so that a transaction can work on a copy of it.
DB == [products |-> products, customers |-> customers,
       orders |-> orders, orderItems |-> orderItems]

InitProducts ==
  (1 :> [name |-> "A", price |-> 2500, stock_quantity |-> 2,
         imageUrl |-> "a.png"]) @@
  (2 :> [name |-> "B", price |-> 1004, stock_quantity |-> 1,
         imageUrl |-> "null"])

InitCustomers ==
  (1 :> [total_orders |-> 0, total_spent |-> 0, last_purchase_date |-> "null"])

\* ------------------------------------------------------------- createOrder
OrderItemInputs == RequestProductIds \X (1..MaxQty)
\* CreateOrderSchema: a non-empty list of {product_id, quantity >= 1}; the
\* same product may be named twice.  Lists of one and of two items are drawn.
ItemLists ==
  {<<[product_id |-> a[1], quantity |-> a[2]]>> : a \in OrderItemInputs} \cup
  {<<[product_id |-> a[1], quantity |-> a[2]],
     [product_id |-> b[1], quantity |-> b[2]]>> : a, b \in OrderItemInputs}

ProductIdsOf(items) == [i \in 1..Len(items) |-> items[i].product_id]

\* prisma.product.findMany({where: {id: {in: productIds}}}): one row per
\* distinct id that exists.
FindManyProducts(productIds) == Range(productIds) \cap DOMAIN products

\* A filter that keeps the ids that were found.
MissingIds_Found(productIds, foundIds) == FilterSeq(productIds, foundIds)

\* productIds.filter((id) => !foundIds.includes(id))
MissingIds(productIds, foundIds) ==
  FilterSeq(productIds, Range(productIds) \ foundIds)

\* The items whose quantity exceeds the stock just read; map throws at the
\* first of them.
InsufficientStock(items) ==
  {i \in 1..Len(items) : products[items[i].product_id].stock_quantity < items[i].quantity}

FirstInsufficient(items) ==
  CHOOSE i \in InsufficientStock(items) : \A j \in InsufficientStock(items) : i <= j

OrderItemsData(items) ==
  [i \in 1..Len(items) |->
     [product_id |-> items[i].product_id,
      quantity |-> items[i].quantity,
      price |-> products[items[i].product_id].price]]

\* A total that adds each price once, whatever the quantity.
OrderTotal_NoQuantity(data) == SumSeq([i \in 1..Len(data) |-> data[i].price])

\* orderItemsData.reduce((sum, item) => sum + item.price * item.quantity, 0)
OrderTotal(data) == SumSeq([i \in 1..Len(data) |-> data[i].price * data[i].quantity])

\* What a call answers: the order it created, or the error it threw with the
\* data its message carries (the missing ids; the product, its stock and the
\* quantity asked).
NoResult == [kind |-> "none", missingIds |-> <<>>, orderId |-> 0,
             product |-> "", available |-> 0, requested |-> 0]
\* BadRequestError(`Insufficient stock for product "<name>". Available: ..,
\* Requested: ..`)
StockError(item) ==
  [NoResult EXCEPT !.kind = "BadRequestError",
                   !.product = products[item.product_id].name,
                   !.available = products[item.product_id].stock_quantity,
                   !.requested = item.quantity]

IdleCall == [pc |-> "idle", customerId |-> 0, items |-> <<>>,
             orderItemsData |-> <<>>, total |-> 0, result |-> NoResult]

\* tx.order.create
TxOrderCreate(d, orderId, customerId, total) ==
  [ok |-> TRUE,
   db |-> [d EXCEPT !.orders =
             (orderId :> [customer_id |-> customerId, status |-> "PENDING",
                          total |-> total]) @@ d.orders]]

\* Promise.all(orderItemsData.map(tx.orderItem.create))
TxOrderItemsCreate(d, orderId, data) ==
  [ok |-> TRUE,
   db |-> [d EXCEPT !.orderItems =
             d.orderItems \o
             [i \in 1..Len(data) |->
                [order_id |-> orderId, product_id |-> data[i].product_id,
                 quantity |-> data[i].quantity, price |-> data[i].price]]]]

RECURSIVE DecrementAll_ByOne(_, _)
\* A decrement of one unit per item, whatever the quantity.
DecrementAll_ByOne(prods, data) ==
  IF data = <<>> THEN prods
  ELSE DecrementAll_ByOne(
         [prods EXCEPT ![Head(data).product_id].stock_quantity = @ - 1],
         Tail(data))

RECURSIVE DecrementAll(_, _)
DecrementAll(prods, data) ==
  IF data = <<>> THEN prods
  ELSE DecrementAll(
         [prods EXCEPT ![Head(data).product_id].stock_quantity =
                         @ - Head(data).quantity],
         Tail(data))

\* Promise.all(orderItemsData.map(tx.product.update({decrement}))): update
\* throws when the row is gone.
TxStockDecrement(d, data) ==
  IF \A i \in 1..Len(data) : data[i].product_id \in DOMAIN d.products
  THEN [ok |-> TRUE, db |-> [d EXCEPT !.products = DecrementAll(d.products, data)]]
  ELSE [ok |-> FALSE, db |-> d]

\* A customer update that stores the order's total as the amount spent.
TxCustomerUpdate_Overwrite(d, customerId, total) ==
  IF customerId \in DOMAIN d.customers
  THEN [ok |-> TRUE,
        db |-> [d EXCEPT !.customers[customerId] =
                  [total_orders |-> @.total_orders + 1,
                   total_spent |-> total,
                   last_purchase_date |-> "set"]]]
  ELSE [ok |-> FALSE, db |-> d]

\* tx.customer.update: throws when the customer row does not exist.
TxCustomerUpdate(d, customerId, total) ==
  IF customerId \in DOMAIN d.customers
  THEN [ok |-> TRUE,
        db |-> [d EXCEPT !.customers[customerId] =
                  [total_orders |-> @.total_orders + 1,
                   total_spent |-> @.total_spent + total,
                   last_purchase_date |-> "set"]]]
  ELSE [ok |-> FALSE, db |-> d]

\* The callback of prisma.$transaction, statement after statement on the
\* transaction's copy of the store; the first failing statement ends it.
TransactionBody(d, orderId, customerId, data, total) ==
  LET s1 == TxOrderCreate(d, orderId, customerId, total)
      s2 == IF s1.ok THEN TxOrderItemsCreate(s1.db, orderId, data) ELSE s1
      s3 == IF s2.ok THEN TxStockDecrement(s2.db, data) ELSE s2
      s4 == IF s3.ok THEN TxCustomerUpdate(s3.db, customerId, total) ELSE s3
  IN s4

\* A variant that keeps the writes made before the failing statement.
RunTransaction_NoRollback(d, orderId, customerId, data, total) ==
  TransactionBody(d, orderId, customerId, data, total)

\* prisma.$transaction(callback): commit when the callback returns, roll
\* every write back when it throws.
RunTransaction(d, orderId, customerId, data, total) ==
  LET end == TransactionBody(d, orderId, customerId, data, total)
  IN IF end.ok THEN end ELSE [ok |-> FALSE, db |-> d]

\* Calls that hold or will ask for an order id.
InFlight == Cardinality({p \in Procs : co[p].pc \in {"called", "tx"}})

\* productIds.length === products.length
AllProductsFound(productIds, foundIds) == Cardinality(foundIds) = Len(productIds)

\* createOrder up to the transaction, for the call (customerId, items):
\* findMany, the missing-products check, the stock check and the total.  The
\* value is the call's next state: ended with an error, or ready to run the
\* transaction with the prices it has just read.
FetchAndValidate(customerId, items) ==
  LET productIds == ProductIdsOf(items)
      foundIds == FindManyProducts(productIds)
  IN IF ~AllProductsFound(productIds, foundIds)
     THEN [IdleCall EXCEPT
             !.pc = "done",
             !.result = [NoResult EXCEPT
                           !.kind = "NotFoundError",
                           !.missingIds = MissingIds(productIds, foundIds)]]
     ELSE IF InsufficientStock(items) # {}
     THEN [IdleCall EXCEPT
             !.pc = "done",
             !.result = StockError(items[FirstInsufficient(items)])]
     ELSE [IdleCall EXCEPT
             !.pc = "tx",
             !.customerId = customerId,
             !.items = items,
             !.orderItemsData = OrderItemsData(items),
             !.total = OrderTotal(OrderItemsData(items))]

\* createOrder(customerId, {items}) from its call to the answer of findMany
\* and the checks that follow it (no other await lies between them).
CreateOrderStart(p, customerId, items) ==
  /\ co[p].pc = "idle"
  /\ orderSeq + InFlight < MaxOrders
  /\ co' = [co EXCEPT ![p] = FetchAndValidate(customerId, items)]
  /\ UNCHANGED <<dbVars, us, cartVars>>

\* The same in two steps, the request kept in the state until findMany
\* answers: the call ...
CreateOrderCall(p, customerId, items) ==
  /\ \A q \in Procs : co[q].pc = "idle"
  /\ orderSeq + InFlight < MaxOrders
  /\ co' = [co EXCEPT ![p] = [IdleCall EXCEPT !.pc = "called",
                                              !.customerId = customerId,
                                              !.items = items]]
  /\ UNCHANGED <<dbVars, us, cartVars>>

\* ... and the answer of findMany with the checks.
CreateOrderFetch(p) ==
  /\ co[p].pc = "called"
  /\ co' = [co EXCEPT ![p] = FetchAndValidate(co[p].customerId, co[p].items)]
  /\ UNCHANGED <<dbVars, us, cartVars>>

\* A createOrder that empties the customer's cart once the order is created.
CreateOrderTransaction_ClearsCart(p) ==
  /\ co[p].pc = "tx"
  /\ orderSeq' = orderSeq + 1
  /\ LET c == co[p]
         end == RunTransaction(DB, orderSeq + 1, c.customerId,
                               c.orderItemsData, c.total)
         key == <<"cart:user:", ToString(c.customerId)>>
     IN /\ products' = end.db.products
        /\ customers' = end.db.customers
        /\ orders' = end.db.orders
        /\ orderItems' = end.db.orderItems
        /\ cache' = IF end.ok THEN [k \in DOMAIN cache \ {key} |-> cache[k]]
                    ELSE cache
        /\ ttl' = IF end.ok THEN [k \in DOMAIN ttl \ {key} |-> ttl[k]] ELSE ttl
        /\ co' = [co EXCEPT ![p] =
                   [IdleCall EXCEPT
                      !.pc = "done",
                      !.result =
                         IF end.ok
                         THEN [NoResult EXCEPT !.kind = "ok",
                                               !.orderId = orderSeq + 1]
                         ELSE [NoResult EXCEPT !.kind = "TransactionError"]]]
  /\ UNCHANGED <<us, cc, cartCalls>>

\* createOrder's transaction, and the response.
CreateOrderTransaction(p) ==
  /\ co[p].pc = "tx"
  /\ orderSeq' = orderSeq + 1
  /\ LET c == co[p]
         end == RunTransaction(DB, orderSeq + 1, c.customerId,
                               c.orderItemsData, c.total)
     IN /\ products' = end.db.products
        /\ customers' = end.db.customers
        /\ orders' = end.db.orders
        /\ orderItems' = end.db.orderItems
        /\ co' = [co EXCEPT ![p] =
                   [IdleCall EXCEPT
                      !.pc = "done",
                      !.result =
                         IF end.ok
                         THEN [NoResult EXCEPT !.kind = "ok",
                                               !.orderId = orderSeq + 1]
                         ELSE [NoResult EXCEPT !.kind = "TransactionError"]]]
  /\ UNCHANGED <<us, cartVars>>

\* The response has been sent; the process takes the next request.
CreateOrderReturn(p) ==
  /\ co[p].pc = "done"
  /\ co' = [co EXCEPT ![p] = IdleCall]
  /\ UNCHANGED <<dbVars, us, cartVars>>

\* updateProduct(id, {price}): an administrator changes a product's price.
UpdateProductPrice(id, price) ==
  /\ id \in DOMAIN products
  /\ products[id].price # price
  /\ products' = [products EXCEPT ![id].price = price]
  /\ UNCHANGED <<customers, orders, orderItems, orderSeq, co, us, cartVars>>

\* updateProduct(id, {stock_quantity}): an administrator changes a product's
\* stock.
UpdateProductStock(id, stock) ==
  /\ id \in DOMAIN products
  /\ products[id].stock_quantity # stock
  /\ products' = [products EXCEPT ![id].stock_quantity = stock]
  /\ UNCHANGED <<customers, orders, orderItems, orderSeq, co, us, cartVars>>

\* ------------------------------------------------------- updateOrderStatus
OrderStatuses ==
  {"PENDING", "PROCESSING", "SHIPPED", "DELIVERED", "CANCELLED", "REFUNDED"}

\* A table in which a cancelled order can be reopened.
ValidTransitions_Reopen(status) ==
  CASE status = "PENDING" -> {"PROCESSING", "CANCELLED"}
    [] status = "PROCESSING" -> {"SHIPPED", "CANCELLED"}
    [] status = "SHIPPED" -> {"DELIVERED"}
    [] status = "DELIVERED" -> {"REFUNDED"}
    [] status = "CANCELLED" -> {"PENDING"}
    [] status = "REFUNDED" -> {}

\* A table in which a pending order can be shipped at once.
ValidTransitions_Skip(status) ==
  CASE status = "PENDING" -> {"PROCESSING", "SHIPPED", "CANCELLED"}
    [] status = "PROCESSING" -> {"SHIPPED", "CANCELLED"}
    [] status = "SHIPPED" -> {"DELIVERED"}
    [] status = "DELIVERED" -> {"REFUNDED"}
    [] status = "CANCELLED" -> {}
    [] status = "REFUNDED" -> {}

\* validTransitions[order.status]
ValidTransitions(status) ==
  CASE status = "PENDING" -> {"PROCESSING", "CANCELLED"}
    [] status = "PROCESSING" -> {"SHIPPED", "CANCELLED"}
    [] status = "SHIPPED" -> {"DELIVERED"}
    [] status = "DELIVERED" -> {"REFUNDED"}
    [] status = "CANCELLED" -> {}
    [] status = "REFUNDED" -> {}

IdleStatusCall == [pc |-> "idle", orderId |-> 0, newStatus |-> "none", result |-> "none"]

\* updateOrderStatus(orderId, newStatus) up to its write: findUnique and the
\* transition check.
UpdateStatusFind(p, orderId, newStatus) ==
  /\ us[p].pc = "idle"
  /\ us' = [us EXCEPT ![p] =
       [pc |-> IF orderId \in DOMAIN orders
                  /\ newStatus \in ValidTransitions(orders[orderId].status)
               THEN "update" ELSE "done",
        orderId |-> orderId,
        newStatus |-> newStatus,
        result |-> IF orderId \notin DOMAIN orders THEN "NotFoundError"
                   ELSE IF newStatus \notin ValidTransitions(orders[orderId].status)
                        THEN "BadRequestError"
                        ELSE "none"]]
  /\ UNCHANGED <<dbVars, co, cartVars>>

RECURSIVE IncrementAll(_, _)
\* The stock with the quantities of the given order lines put back.
IncrementAll(prods, rows) ==
  IF rows = <<>> THEN prods
  ELSE IncrementAll(
         [prods EXCEPT ![Head(rows).product_id].stock_quantity =
                         @ + Head(rows).quantity],
         Tail(rows))

\* A status update that puts the stock of a cancelled order back.
UpdateStatusWrite_Restock(p) ==
  /\ us[p].pc = "update"
  /\ orders' = [orders EXCEPT ![us[p].orderId].status = us[p].newStatus]
  /\ products' =
       IF us[p].newStatus = "CANCELLED"
       THEN IncrementAll(products,
                         SelectSeq(orderItems,
                                   LAMBDA r : r.order_id = us[p].orderId))
       ELSE products
  /\ us' = [us EXCEPT ![p].pc = "done", ![p].result = "ok"]
  /\ UNCHANGED <<customers, orderItems, orderSeq, co, cartVars>>

\* prisma.order.update({where: {id}, data: {status: newStatus}})
UpdateStatusWrite(p) ==
  /\ us[p].pc = "update"
  /\ orders' = [orders EXCEPT ![us[p].orderId].status = us[p].newStatus]
  /\ us' = [us EXCEPT ![p].pc = "done", ![p].result = "ok"]
  /\ UNCHANGED <<products, customers, orderItems, orderSeq, co, cartVars>>

UpdateStatusReturn(p) ==
  /\ us[p].pc = "done"
  /\ us' = [us EXCEPT ![p] = IdleStatusCall]
  /\ UNCHANGED <<dbVars, co, cartVars>>

\* No updateOrderStatus call is in flight.
NoStatusCall == \A q \in Procs : us[q].pc = "idle"

\* -------------------------------------------------------------------- cart
UserIds == {0, 1}          \* userId of a call; 0 stands for undefined
SessionIds == {"", "s1"}   \* sessionId of a call; "" stands for undefined

NoKey == <<>>

\* CART_TTL = parseInt(process.env.CART_TTL || "604800"): the lifetime in
\* seconds a save gives a key, here with CART_TTL=2 in the environment.
CART_TTL == 2

\* A key that prefers the session to the user.
GetCartKey_SessionFirst(userId, sessionId) ==
  IF sessionId # "" THEN <<"cart:session:", sessionId>>
  ELSE IF userId # 0 THEN <<"cart:user:", ToString(userId)>>
  ELSE <<>>

\* getCartKey: `cart:user:${userId}` if userId, `cart:session:${sessionId}` if
\* sessionId, and an Error otherwise (NoKey).
GetCartKey(userId, sessionId) ==
  IF userId # 0 THEN <<"cart:user:", ToString(userId)>>
  ELSE IF sessionId # "" THEN <<"cart:session:", sessionId>>
  ELSE NoKey

EmptyCart == [items |-> <<>>, total |-> 0, itemCount |-> 0]

\* getCart after its key is built: the stored document, or the empty cart
\* when redis answers null.
GetCart(key) == IF key \in DOMAIN cache THEN cache[key] ELSE EmptyCart

\* A write that keeps the stored lines of the products the new cart does not
\* have.
SetEx_KeepOtherLines(key, cart) ==
  [k \in DOMAIN cache \cup {key} |->
     IF k # key THEN cache[k]
     ELSE IF key \notin DOMAIN cache THEN cart
     ELSE [cart EXCEPT !.items =
             SelectSeq(cache[key].items,
                       LAMBDA old : \A i \in 1..Len(cart.items) :
                                      cart.items[i].product_id # old.product_id)
             \o cart.items]]

\* redisClient.setEx(key, CART_TTL, JSON.stringify(cart))
SetEx(key, cart) ==
  [k \in DOMAIN cache \cup {key} |-> IF k = key THEN cart ELSE cache[k]]

\* A write that leaves a stored key the lifetime it has left.
SetExTtl_KeepTtl(key, seconds) ==
  [k \in DOMAIN ttl \cup {key} |->
     IF k = key /\ k \notin DOMAIN ttl THEN seconds ELSE ttl[k]]

\* redisClient.setEx(key, CART_TTL, ...), the lifetimes after it: the key has
\* the given number of seconds to live, whatever it had left.
SetExTtl(key, seconds) ==
  [k \in DOMAIN ttl \cup {key} |-> IF k = key THEN seconds ELSE ttl[k]]

\* A delete that stores the empty cart under the key.
Del_StoreEmpty(key) ==
  [k \in DOMAIN cache \cup {key} |->
     IF k = key THEN [items |-> <<>>, total |-> 0, itemCount |-> 0]
     ELSE cache[k]]

\* redisClient.del(key)
Del(key) == [k \in DOMAIN cache \ {key} |-> cache[k]]

\* redisClient.del(key), the lifetimes after it.
DelTtl(key) == [k \in DOMAIN ttl \ {key} |-> ttl[k]]

\* Number(x.toFixed(2)) for x >= 0 counted in thousandths: the nearest
\* hundredth.
ToFixed2(x) == ((x + 5) \div 10) * 10

\* A cart whose itemCount is the number of lines.
CalculateCart_LineCount(items) ==
  [items |-> items,
   total |-> ToFixed2(SumSeq([i \in 1..Len(items) |->
                                items[i].price * items[i].quantity])),
   itemCount |-> Len(items)]

\* calculateCart
CalculateCart(items) ==
  [items |-> items,
   total |-> ToFixed2(SumSeq([i \in 1..Len(items) |->
                                items[i].price * items[i].quantity])),
   itemCount |-> SumSeq([i \in 1..Len(items) |-> items[i].quantity])]

\* items.findIndex((item) => item.product_id === productId); 0 for -1.
FindIndex(items, productId) ==
  IF \E i \in 1..Len(items) : items[i].product_id = productId
  THEN CHOOSE i \in 1..Len(items) :
         /\ items[i].product_id = productId
         /\ \A j \in 1..(i - 1) : items[j].product_id # productId
  ELSE 0

\* A splice that takes out the first line whatever the index.
Splice_First(items, index) == Tail(items)

\* items.splice(index, 1)
Splice(items, index) ==
  [i \in 1..(Len(items) - 1) |-> IF i < index THEN items[i] ELSE items[i + 1]]

\* A pushed cart line of one unit whatever the quantity asked.
NewCartItem_OneUnit(product, quantity) ==
  [product_id |-> product.id,
   quantity |-> 1,
   price |-> product.price,
   name |-> product.name,
   imageUrl |-> IF product.imageUrl \in {"null", ""} THEN "undefined"
                ELSE product.imageUrl]

\* The cart line addToCart pushes for a product new to the cart.
NewCartItem(product, quantity) ==
  [product_id |-> product.id,
   quantity |-> quantity,
   price |-> product.price,
   name |-> product.name,
   imageUrl |-> IF product.imageUrl \in {"null", ""} THEN "undefined"
                ELSE product.imageUrl]

\* prisma.product.findUnique({where: {id}}) for an id that exists.
FindUniqueProduct(id) ==
  [id |-> id, name |-> products[id].name, price |-> products[id].price,
   stock_quantity |-> products[id].stock_quantity,
   imageUrl |-> products[id].imageUrl]

NoProduct == [id |-> 0, name |-> "", price |-> 0, stock_quantity |-> 0,
              imageUrl |-> "null"]

IdleCartCall ==
  [op |-> "none", pc |-> "idle", userId |-> 0, sessionId |-> "",
   product_id |-> 0, quantity |-> 0, product |-> NoProduct,
   cart |-> EmptyCart, sessionCart |-> EmptyCart, result |-> "none"]

\* A call that has ended: its arguments, what it answered and, when it
\* answered a cart, that cart (call.cart).
Ended(call, result) ==
  [call EXCEPT !.pc = "done", !.result = result, !.product = NoProduct,
               !.sessionCart = EmptyCart,
               !.cart = IF result = "ok" THEN call.cart ELSE EmptyCart]

NewCartCall(op, userId, sessionId, productId, quantity) ==
  [IdleCartCall EXCEPT !.op = op, !.userId = userId, !.sessionId = sessionId,
                       !.product_id = productId, !.quantity = quantity]

\* getCart(userId, sessionId)
GetCartCall(p, userId, sessionId) ==
  /\ cc[p].pc = "idle"
  /\ LET call == NewCartCall("get", userId, sessionId, 0, 0)
         key == GetCartKey(userId, sessionId)
     IN cc' = [cc EXCEPT ![p] =
                 IF key = NoKey THEN Ended(call, "Error")
                 ELSE Ended([call EXCEPT !.cart = GetCart(key)], "ok")]
  /\ cartCalls' = cartCalls + 1
  /\ UNCHANGED <<dbVars, co, us, cache, ttl>>

\* addToCart up to getCart: findUnique, the not-found check and the first
\* stock check.
AddToCartFind(p, userId, sessionId, productId, quantity) ==
  /\ cc[p].pc = "idle"
  /\ LET call == NewCartCall("add", userId, sessionId, productId, quantity)
     IN cc' = [cc EXCEPT ![p] =
                 IF productId \notin DOMAIN products
                 THEN Ended(call, "NotFoundError")
                 ELSE IF products[productId].stock_quantity < quantity
                 THEN Ended(call, "BadRequestError")
                 ELSE [call EXCEPT !.pc = "add_get",
                                   !.product = FindUniqueProduct(productId)]]
  /\ cartCalls' = cartCalls + 1
  /\ UNCHANGED <<dbVars, co, us, cache, ttl>>

\* addToCart checking the stock against the added quantity only.
AddToCartOn_Delta(call, cart) ==
  LET items == cart.items
      index == FindIndex(items, call.product_id)
      newQuantity == items[index].quantity + call.quantity
  IN IF index > 0
     THEN IF call.product.stock_quantity < call.quantity
          THEN Ended(call, "BadRequestError")
          ELSE [call EXCEPT
                  !.pc = "save",
                  !.cart = CalculateCart(
                     [items EXCEPT ![index].quantity = newQuantity])]
     ELSE [call EXCEPT
             !.pc = "save",
             !.cart = CalculateCart(
                Append(items, NewCartItem(call.product, call.quantity)))]

\* addToCart on the cart that getCart answered: the line is raised (after the
\* check of the cumulative quantity) or pushed, and the cart recomputed.
AddToCartOn(call, cart) ==
  LET items == cart.items
      index == FindIndex(items, call.product_id)
      newQuantity == items[index].quantity + call.quantity
  IN IF index > 0
     THEN IF call.product.stock_quantity < newQuantity
          THEN Ended(call, "BadRequestError")
          ELSE [call EXCEPT
                  !.pc = "save",
                  !.cart = CalculateCart(
                     [items EXCEPT ![index].quantity = newQuantity])]
     ELSE [call EXCEPT
             !.pc = "save",
             !.cart = CalculateCart(
                Append(items, NewCartItem(call.product, call.quantity)))]

\* addToCart from the answer of getCart to saveCart.
AddToCartGet(p) ==
  /\ cc[p].pc = "add_get"
  /\ LET call == cc[p]
         key == GetCartKey(call.userId, call.sessionId)
     IN cc' = [cc EXCEPT ![p] =
                 IF key = NoKey THEN Ended(call, "Error")
                 ELSE AddToCartOn(call, GetCart(key))]
  /\ UNCHANGED <<dbVars, co, us, cache, ttl, cartCalls>>

\* updateCartItem without its quantity === 0 branch.
RemovesLine_Never(quantity) == FALSE

\* if (quantity === 0): updateCartItem removes the line.
RemovesLine(quantity) == quantity = 0

\* updateCartItem without a removal for quantity 0.
UpdateCartItemOn_NoRemoval(call, cart) ==
  LET index == FindIndex(cart.items, call.product_id)
  IN IF index = 0 THEN Ended(call, "NotFoundError")
     ELSE [call EXCEPT !.pc = "update_find", !.cart = cart]

\* updateCartItem on the cart that getCart answered: the not-in-cart check
\* and, for quantity 0, the removal of the line.
UpdateCartItemOn(call, cart) ==
  LET index == FindIndex(cart.items, call.product_id)
  IN IF index = 0 THEN Ended(call, "NotFoundError")
     ELSE IF RemovesLine(call.quantity)
     THEN [call EXCEPT !.pc = "save",
                       !.cart = CalculateCart(Splice(cart.items, index))]
     ELSE [call EXCEPT !.pc = "update_find", !.cart = cart]

\* updateCartItem up to findUnique.
UpdateCartItemGet(p, userId, sessionId, productId, quantity) ==
  /\ cc[p].pc = "idle"
  /\ LET call == NewCartCall("update", userId, sessionId, productId, quantity)
         key == GetCartKey(userId, sessionId)
     IN cc' = [cc EXCEPT ![p] =
                 IF key = NoKey THEN Ended(call, "Error")
                 ELSE UpdateCartItemOn(call, GetCart(key))]
  /\ cartCalls' = cartCalls + 1
  /\ UNCHANGED <<dbVars, co, us, cache, ttl>>

\* updateCartItem adding the quantity to the line's quantity.
UpdateCartItemFind_Additive(p) ==
  /\ cc[p].pc = "update_find"
  /\ LET call == cc[p]
         items == call.cart.items
         index == FindIndex(items, call.product_id)
     IN cc' = [cc EXCEPT ![p] =
                 IF call.product_id \notin DOMAIN products
                 THEN Ended(call, "NotFoundError")
                 ELSE IF products[call.product_id].stock_quantity < call.quantity
                 THEN Ended(call, "BadRequestError")
                 ELSE [call EXCEPT
                         !.pc = "save",
                         !.cart = CalculateCart(
                            [items EXCEPT ![index].quantity = @ + call.quantity])]]
  /\ UNCHANGED <<dbVars, co, us, cache, ttl, cartCalls>>

\* updateCartItem from the answer of findUnique to saveCart: the stock check
\* and the new quantity.
UpdateCartItemFind(p) ==
  /\ cc[p].pc = "update_find"
  /\ LET call == cc[p]
         items == call.cart.items
         index == FindIndex(items, call.product_id)
     IN cc' = [cc EXCEPT ![p] =
                 IF call.product_id \notin DOMAIN products
                 THEN Ended(call, "NotFoundError")
                 ELSE IF products[call.product_id].stock_quantity < call.quantity
                 THEN Ended(call, "BadRequestError")
                 ELSE [call EXCEPT
                         !.pc = "save",
                         !.cart = CalculateCart(
                            [items EXCEPT ![index].quantity = call.quantity])]]
  /\ UNCHANGED <<dbVars, co, us, cache, ttl, cartCalls>>

\* removeFromCart without the not-in-cart check.
RemoveFromCartOn_NoCheck(call, cart) ==
  LET index == FindIndex(cart.items, call.product_id)
  IN [call EXCEPT !.pc = "save",
                  !.cart = CalculateCart(Splice(cart.items, index))]

\* removeFromCart on the cart that getCart answered.
RemoveFromCartOn(call, cart) ==
  LET index == FindIndex(cart.items, call.product_id)
  IN IF index = 0 THEN Ended(call, "NotFoundError")
     ELSE [call EXCEPT !.pc = "save",
                       !.cart = CalculateCart(Splice(cart.items, index))]

\* removeFromCart up to saveCart.
RemoveFromCartGet(p, userId, sessionId, productId) ==
  /\ cc[p].pc = "idle"
  /\ LET call == NewCartCall("remove", userId, sessionId, productId, 0)
         key == GetCartKey(userId, sessionId)
     IN cc' = [cc EXCEPT ![p] =
                 IF key = NoKey THEN Ended(call, "Error")
                 ELSE RemoveFromCartOn(call, GetCart(key))]
  /\ cartCalls' = cartCalls + 1
  /\ UNCHANGED <<dbVars, co, us, cache, ttl>>

\* saveCart(updatedCart, userId, sessionId), and the return of the cart; in
\* mergeCart the session cart is still to be cleared.
SaveCart(p) ==
  /\ cc[p].pc = "save"
  /\ cache' = SetEx(IF cc[p].op = "merge" THEN GetCartKey(cc[p].userId, "")
                     ELSE GetCartKey(cc[p].userId, cc[p].sessionId),
                     cc[p].cart)
  /\ ttl' = SetExTtl(IF cc[p].op = "merge" THEN GetCartKey(cc[p].userId, "")
                      ELSE GetCartKey(cc[p].userId, cc[p].sessionId),
                      CART_TTL)
  /\ cc' = [cc EXCEPT ![p] =
              IF cc[p].op = "merge" THEN [cc[p] EXCEPT !.pc = "merge_clear"]
              ELSE Ended(cc[p], "ok")]
  /\ UNCHANGED <<dbVars, co, us, cartCalls>>

\* clearCart(userId, sessionId)
ClearCart(p, userId, sessionId) ==
  /\ cc[p].pc = "idle"
  /\ LET call == NewCartCall("clear", userId, sessionId, 0, 0)
         key == GetCartKey(userId, sessionId)
     IN /\ cc' = [cc EXCEPT ![p] =
                    Ended(call, IF key = NoKey THEN "Error" ELSE "ok")]
        /\ cache' = IF key = NoKey THEN cache ELSE Del(key)
        /\ ttl' = IF key = NoKey THEN ttl ELSE DelTtl(key)
  /\ cartCalls' = cartCalls + 1
  /\ UNCHANGED <<dbVars, co, us>>

\* mergeCart(userId, sessionId) up to the second getCart: the session cart is
\* read.
MergeCartGetSession(p, userId, sessionId) ==
  /\ cc[p].pc = "idle"
  /\ LET call == NewCartCall("merge", userId, sessionId, 0, 0)
         key == GetCartKey(0, sessionId)
     IN cc' = [cc EXCEPT ![p] =
                 IF key = NoKey THEN Ended(call, "Error")
                 ELSE [call EXCEPT !.pc = "merge_user",
                                   !.sessionCart = GetCart(key)]]
  /\ cartCalls' = cartCalls + 1
  /\ UNCHANGED <<dbVars, co, us, cache, ttl>>

RECURSIVE MergeItems_Replace(_, _)
\* A merge that takes the session quantity instead of adding it.
MergeItems_Replace(userItems, sessionItems) ==
  IF sessionItems = <<>> THEN userItems
  ELSE LET sessionItem == Head(sessionItems)
           index == FindIndex(userItems, sessionItem.product_id)
       IN MergeItems_Replace(
            IF index > 0
            THEN [userItems EXCEPT ![index].quantity = sessionItem.quantity]
            ELSE Append(userItems, sessionItem),
            Tail(sessionItems))

\* A merge that pushes every session line.
MergeItems_PushAll(userItems, sessionItems) == userItems \o sessionItems

RECURSIVE MergeItems(_, _)
\* for (const sessionItem of sessionCart.items) { add the quantity to the
\* line of the same product, or push the session line }
MergeItems(userItems, sessionItems) ==
  IF sessionItems = <<>> THEN userItems
  ELSE LET sessionItem == Head(sessionItems)
           index == FindIndex(userItems, sessionItem.product_id)
       IN MergeItems(
            IF index > 0
            THEN [userItems EXCEPT ![index].quantity = @ + sessionItem.quantity]
            ELSE Append(userItems, sessionItem),
            Tail(sessionItems))

\* A merge without the return for an empty session cart.
SessionCartIsEmpty_Never(sessionCart) == FALSE

\* if (sessionCart.items.length === 0)
SessionCartIsEmpty(sessionCart) == Len(sessionCart.items) = 0

\* A merge that deletes the session key before it saves the merged cart.
MergeCartGetUser_ClearFirst(p) ==
  /\ cc[p].pc = "merge_user"
  /\ LET call == cc[p]
         key == GetCartKey(call.userId, "")
         userCart == GetCart(key)
         merges == key # NoKey /\ ~SessionCartIsEmpty(call.sessionCart)
     IN /\ cc' = [cc EXCEPT ![p] =
                    IF key = NoKey THEN Ended(call, "Error")
                    ELSE IF SessionCartIsEmpty(call.sessionCart)
                    THEN Ended([call EXCEPT !.cart = userCart], "ok")
                    ELSE [call EXCEPT
                            !.pc = "save",
                            !.sessionCart = EmptyCart,
                            !.cart = CalculateCart(
                               MergeItems(userCart.items,
                                          call.sessionCart.items))]]
        /\ cache' = IF merges THEN Del(GetCartKey(0, call.sessionId)) ELSE cache
        /\ ttl' = IF merges THEN DelTtl(GetCartKey(0, call.sessionId)) ELSE ttl
  /\ UNCHANGED <<dbVars, co, us, cartCalls>>

\* mergeCart from the answer of the second getCart: an empty session cart
\* returns the user cart, any other is merged into it.
MergeCartGetUser(p) ==
  /\ cc[p].pc = "merge_user"
  /\ LET call == cc[p]
         key == GetCartKey(call.userId, "")
         userCart == GetCart(key)
     IN cc' = [cc EXCEPT ![p] =
                 IF key = NoKey THEN Ended(call, "Error")
                 ELSE IF SessionCartIsEmpty(call.sessionCart)
                 THEN Ended([call EXCEPT !.cart = userCart], "ok")
                 ELSE [call EXCEPT
                         !.pc = "save",
                         !.sessionCart = EmptyCart,
                         !.cart = CalculateCart(
                            MergeItems(userCart.items, call.sessionCart.items))]]
  /\ UNCHANGED <<dbVars, co, us, cache, ttl, cartCalls>>

\* mergeCart after saveCart: clearCart(undefined, sessionId), and the return
\* of the merged cart.
MergeCartClear(p) ==
  /\ cc[p].pc = "merge_clear"
  /\ cache' = Del(GetCartKey(0, cc[p].sessionId))
  /\ ttl' = DelTtl(GetCartKey(0, cc[p].sessionId))
  /\ cc' = [cc EXCEPT ![p] = Ended(cc[p], "ok")]
  /\ UNCHANGED <<dbVars, co, us, cartCalls>>

\* One second passes in the cache: a key with one second left expires, the
\* others have one second less.
SecondPasses ==
  /\ DOMAIN cache # {}
  /\ cache' = [k \in {j \in DOMAIN cache : ttl[j] > 1} |-> cache[k]]
  /\ ttl' = [k \in {j \in DOMAIN ttl : ttl[j] > 1} |-> ttl[k] - 1]
  /\ UNCHANGED <<dbVars, co, us, cc, cartCalls>>

\* The caller takes the answer; the process is free for its next call.
CartReturn(p) ==
  /\ cc[p].pc = "done"
  /\ cc' = [cc EXCEPT ![p] = IdleCartCall]
  /\ UNCHANGED <<dbVars, co, us, cache, ttl, cartCalls>>

Init ==
  /\ products = InitProducts
  /\ customers = InitCustomers
  /\ orders = <<>>
  /\ orderItems = <<>>
  /\ orderSeq = 0
  /\ co = [p \in Procs |-> IdleCall]
  /\ us = [p \in Procs |-> IdleStatusCall]
  /\ cache = <<>>
  /\ ttl = <<>>
  /\ cc = [p \in Procs |-> IdleCartCall]
  /\ cartCalls = 0

\* Price changes by an administrator.
Reprice ==
  \E id \in RepricedProductIds, price \in PriceChoices : UpdateProductPrice(id, price)

\* Concurrent order creation, with prices changing meanwhile.
Next ==
  \/ \E p \in Procs, c \in RequestCustomerIds, items \in ItemLists :
       CreateOrderStart(p, c, items)
  \/ \E p \in Procs : CreateOrderTransaction(p)
  \/ \E p \in Procs : CreateOrderReturn(p)
  \/ Reprice

Spec == Init /\ [][Next]_vars

\* One createOrder request at a time, kept in the state from its arrival, with
\* prices changing meanwhile.
RequestNext ==
  \/ \E p \in Procs, c \in RequestCustomerIds, items \in ItemLists :
       CreateOrderCall(p, c, items)
  \/ \E p \in Procs : CreateOrderFetch(p)
  \/ \E p \in Procs : CreateOrderTransaction(p)
  \/ \E p \in Procs : CreateOrderReturn(p)
  \/ Reprice

RequestSpec == Init /\ [][RequestNext]_vars

\* Orders of one item, to have orders whose status can be changed.
SingleItemLists ==
  {<<[product_id |-> id, quantity |-> 1]>> : id \in ProductIds}

\* updateOrderStatus calls one after the other, on orders created meanwhile.
StatusNext ==
  \/ \E p \in Procs, items \in SingleItemLists : CreateOrderStart(p, 1, items)
  \/ \E p \in Procs : CreateOrderTransaction(p)
  \/ \E p \in Procs : CreateOrderReturn(p)
  \/ \E p \in Procs, orderId \in 1..(MaxOrders + 1), newStatus \in OrderStatuses :
       NoStatusCall /\ UpdateStatusFind(p, orderId, newStatus)
  \/ \E p \in Procs : UpdateStatusWrite(p)
  \/ \E p \in Procs : UpdateStatusReturn(p)

StatusSpec == Init /\ [][StatusNext]_vars

CartNext ==
  \/ \E p \in Procs, userId \in UserIds, sessionId \in SessionIds :
       /\ cartCalls < MaxCartCalls
       /\ \/ GetCartCall(p, userId, sessionId)
          \/ \E productId \in RequestProductIds, quantity \in 1..MaxQty :
               AddToCartFind(p, userId, sessionId, productId, quantity)
          \/ \E productId \in RequestProductIds, quantity \in 0..MaxQty :
               UpdateCartItemGet(p, userId, sessionId, productId, quantity)
          \/ \E productId \in RequestProductIds :
               RemoveFromCartGet(p, userId, sessionId, productId)
          \/ ClearCart(p, userId, sessionId)
          \/ MergeCartGetSession(p, userId, sessionId)
  \/ \E p \in Procs :
       \/ AddToCartGet(p)
       \/ UpdateCartItemFind(p)
       \/ SaveCart(p)
       \/ MergeCartGetUser(p)
       \/ MergeCartClear(p)
       \/ CartReturn(p)

CartSpec == Init /\ [][CartNext]_vars

\* No cart call is under way or waiting for its answer to be taken.
NoCartCall == \A p \in Procs : cc[p].pc = "idle"

\* Stock changes by an administrator.
Restock ==
  \E id \in RepricedProductIds, stock \in 0..MaxQty : UpdateProductStock(id, stock)

\* Cart calls one after another.
CartSerialNext ==
  \/ \E p \in Procs, userId \in UserIds, sessionId \in SessionIds :
       /\ cartCalls < MaxCartCalls
       /\ NoCartCall
       /\ \/ GetCartCall(p, userId, sessionId)
          \/ \E productId \in RequestProductIds, quantity \in 1..MaxQty :
               AddToCartFind(p, userId, sessionId, productId, quantity)
          \/ \E productId \in RequestProductIds, quantity \in 0..MaxQty :
               UpdateCartItemGet(p, userId, sessionId, productId, quantity)
          \/ \E productId \in RequestProductIds :
               RemoveFromCartGet(p, userId, sessionId, productId)
          \/ ClearCart(p, userId, sessionId)
          \/ MergeCartGetSession(p, userId, sessionId)
  \/ \E p \in Procs :
       \/ AddToCartGet(p)
       \/ UpdateCartItemFind(p)
       \/ SaveCart(p)
       \/ MergeCartGetUser(p)
       \/ MergeCartClear(p)
       \/ CartReturn(p)

CartSerialSpec == Init /\ [][CartSerialNext]_vars

\* Cart calls one after another, with prices and stock changing between the
\* steps of a call.
CartStoreNext ==
  \/ CartSerialNext
  \/ Reprice
  \/ Restock

CartStoreSpec == Init /\ [][CartStoreNext]_vars

\* Interleaved updateOrderStatus calls, on orders created meanwhile.
StatusRaceNext ==
  \/ \E p \in Procs, items \in SingleItemLists :
       (\A q \in Procs : co[q].pc = "idle") /\ CreateOrderStart(p, 1, items)
  \/ \E p \in Procs : CreateOrderTransaction(p)
  \/ \E p \in Procs : CreateOrderReturn(p)
  \/ \E p \in Procs, orderId \in 1..(MaxOrders + 1), newStatus \in OrderStatuses :
       UpdateStatusFind(p, orderId, newStatus)
  \/ \E p \in Procs : UpdateStatusWrite(p)
  \/ \E p \in Procs : UpdateStatusReturn(p)

StatusRaceSpec == Init /\ [][StatusRaceNext]_vars

\* No createOrder and no updateOrderStatus call is in flight.
NoOrderCall == \A q \in Procs : co[q].pc = "idle" /\ us[q].pc = "idle"

\* Orders created and moved through their statuses, one call at a time, while
\* prices change.
OrderLifeNext ==
  \/ \E p \in Procs, items \in SingleItemLists :
       NoOrderCall /\ CreateOrderStart(p, 1, items)
  \/ \E p \in Procs : CreateOrderTransaction(p)
  \/ \E p \in Procs : CreateOrderReturn(p)
  \/ \E p \in Procs, orderId \in 1..(MaxOrders + 1), newStatus \in OrderStatuses :
       NoOrderCall /\ UpdateStatusFind(p, orderId, newStatus)
  \/ \E p \in Procs : UpdateStatusWrite(p)
  \/ \E p \in Procs : UpdateStatusReturn(p)
  \/ Reprice

OrderLifeSpec == Init /\ [][OrderLifeNext]_vars

\* No cart call and no createOrder call is in flight.
NoCheckoutCall ==
  \A q \in Procs : cc[q].pc = "idle" /\ co[q].pc = "idle"

\* Carts filled by addToCart and orders created, one call at a time, while
\* time passes.
CheckoutNext ==
  \/ \E p \in Procs, userId \in UserIds, sessionId \in SessionIds,
        productId \in RequestProductIds, quantity \in 1..MaxQty :
       /\ cartCalls < MaxCartCalls
       /\ NoCheckoutCall
       /\ AddToCartFind(p, userId, sessionId, productId, quantity)
  \/ \E p \in Procs : AddToCartGet(p)
  \/ \E p \in Procs : SaveCart(p)
  \/ \E p \in Procs : CartReturn(p)
  \/ SecondPasses
  \/ \E p \in Procs, c \in RequestCustomerIds, items \in SingleItemLists :
       NoCheckoutCall /\ CreateOrderStart(p, c, items)
  \/ \E p \in Procs : CreateOrderTransaction(p)
  \/ \E p \in Procs : CreateOrderReturn(p)

CheckoutSpec == Init /\ [][CheckoutNext]_vars

\* Cart calls one after another while time passes, between calls and between
\* the steps of a call.
CartTtlNext ==
  \/ CartSerialNext
  \/ SecondPasses

CartTtlSpec == Init /\ [][CartTtlNext]_vars

\* ------------------------------------------------------------------ claims
\* The order item rows of order o, in insertion order.
LinesOf(o) == SelectSeq(orderItems, LAMBDA r : r.order_id = o)

LineValue(rows) == SumSeq([i \in 1..Len(rows) |-> rows[i].price * rows[i].quantity])

\* Units of product id in the order item table.
OrderedQuantity(id) ==
  LET rows == SelectSeq(orderItems, LAMBDA r : r.product_id = id)
  IN SumSeq([i \in 1..Len(rows) |-> rows[i].quantity])

\* Units of product id a list of request items asks for.
RequestedQuantity(items, id) ==
  LET its == SelectSeq(items, LAMBDA it : it.product_id = id)
  IN SumSeq([i \in 1..Len(its) |-> its[i].quantity])

OrdersOf(c) == {o \in DOMAIN orders : orders[o].customer_id = c}

RECURSIVE SumTotals(_)
SumTotals(os) ==
  IF os = {} THEN 0
  ELSE LET o == CHOOSE x \in os : TRUE IN orders[o].total + SumTotals(os \ {o})

\* C1: concurrent createOrder calls never sell more units of a product than
\* it had in stock: no product's stock_quantity drops below 0, and the units
\* in committed order lines never exceed the initial stock.
C1_NoOversell ==
  \A id \in DOMAIN products :
    /\ products[id].stock_quantity >= 0
    /\ OrderedQuantity(id) <= InitProducts[id].stock_quantity

\* C2: createOrder's writes are all-or-nothing.  In every state of the store
\* the orders are exactly the orders that have lines, every order's customer
\* exists, each product's stock is its initial stock less the units in the
\* order lines, and each customer's aggregates count that customer's orders.
C2_AllOrNothing ==
  /\ {orderItems[i].order_id : i \in 1..Len(orderItems)} = DOMAIN orders
  /\ \A o \in DOMAIN orders : orders[o].customer_id \in DOMAIN customers
  /\ \A id \in DOMAIN products :
       products[id].stock_quantity =
         InitProducts[id].stock_quantity - OrderedQuantity(id)
  /\ \A c \in DOMAIN customers :
       /\ customers[c].total_orders = Cardinality(OrdersOf(c))
       /\ customers[c].total_spent = SumTotals(OrdersOf(c))
       /\ (customers[c].last_purchase_date = "set") = (OrdersOf(c) # {})

\* A transaction has failed after another one committed.
C2_Witness ==
  /\ \E p \in Procs : co[p].pc = "done" /\ co[p].result.kind = "TransactionError"
  /\ orderSeq = 2
  /\ DOMAIN orders = {1}

\* C3: a createOrder request whose products all exist and one of whose items
\* asks for more than the stock just read fails with the insufficient-stock
\* error (BadRequestError) and leaves the store unchanged.
C3_InsufficientStockRejected ==
  [][\A p \in Procs :
       (/\ co[p].pc = "called"
        /\ co'[p].pc # "called"
        /\ Range(ProductIdsOf(co[p].items)) \subseteq DOMAIN products
        /\ \E i \in 1..Len(co[p].items) :
             co[p].items[i].quantity >
               products[co[p].items[i].product_id].stock_quantity)
       => /\ co'[p].pc = "done"
          /\ co'[p].result.kind = "BadRequestError"
          /\ UNCHANGED dbVars]_vars

\* C4, first half: the call that passes the checks captures, for each item,
\* the product's price in the store at that moment.
C4_Captures(p) ==
  (co[p].pc = "called" /\ co'[p].pc = "tx") =>
    LET items == co[p].items IN
      /\ co'[p].customerId = co[p].customerId
      /\ co'[p].items = items
      /\ co'[p].orderItemsData =
           [i \in 1..Len(items) |->
              [product_id |-> items[i].product_id,
               quantity |-> items[i].quantity,
               price |-> products[items[i].product_id].price]]

\* C4, second half: the successful transaction writes one PENDING order with
\* the total of the captured prices, one line per item, the stock decrements
\* and the customer's aggregates, and nothing else.
C4_Commits(p) ==
  (co[p].pc = "tx" /\ co'[p].result.kind = "ok") =>
    LET id == co'[p].result.orderId
        c == co[p].customerId
        items == co[p].items
        data == co[p].orderItemsData
        total == SumSeq([i \in 1..Len(items) |-> data[i].price * items[i].quantity])
    IN /\ id \notin DOMAIN orders
       /\ orders' = (id :> [customer_id |-> c, status |-> "PENDING",
                            total |-> total]) @@ orders
       /\ orderItems' =
            orderItems \o
            [i \in 1..Len(items) |->
               [order_id |-> id, product_id |-> items[i].product_id,
                quantity |-> items[i].quantity, price |-> data[i].price]]
       /\ DOMAIN products' = DOMAIN products
       /\ \A pid \in DOMAIN products :
            products'[pid] =
              [products[pid] EXCEPT
                 !.stock_quantity = @ - RequestedQuantity(items, pid)]
       /\ customers' =
            [customers EXCEPT
               ![c] = [total_orders |-> @.total_orders + 1,
                       total_spent |-> @.total_spent + total,
                       last_purchase_date |-> "set"]]

\* C4: a successful createOrder(customerId, items) creates exactly one order,
\* PENDING, with total = sum of (store price read by the call * quantity),
\* one order line per item with the item's product, quantity and that price,
\* decrements each product's stock by the ordered quantity and adds 1 to the
\* customer's total_orders and the total to total_spent.
C4_SuccessfulOrder ==
  [][\A p \in Procs : C4_Captures(p) /\ C4_Commits(p)]_vars

\* An order of two units of product 1 at 2.50 was created: total 5.00, stock
\* 2 -> 0, one line.
C4_Witness ==
  \E p \in Procs :
    /\ co[p].pc = "done"
    /\ co[p].result.kind = "ok"
    /\ LET id == co[p].result.orderId IN
         /\ orders[id].total = 5000
         /\ LinesOf(id) = <<[order_id |-> id, product_id |-> 1,
                             quantity |-> 2, price |-> 2500]>>
         /\ products[1].stock_quantity = 0
         /\ customers[1].total_orders >= 1

\* C5: in every state, every order's total is the sum of price * quantity
\* over the order's lines.
C5_TotalIsSumOfLines ==
  \A o \in DOMAIN orders : orders[o].total = LineValue(LinesOf(o))

\* An order with two lines, one of them of two units, is in the store.
C5_Witness ==
  \E o \in DOMAIN orders :
    /\ Len(LinesOf(o)) = 2
    /\ \E i \in 1..2 : LinesOf(o)[i].quantity = 2

\* C6: a createOrder request that names a product not in the store fails with
\* NotFoundError listing exactly the missing ids, creates no order for the
\* products that exist, and leaves the store unchanged.
C6_MissingProductsRejected ==
  [][\A p \in Procs :
       LET missing == Range(ProductIdsOf(co[p].items)) \ DOMAIN products IN
         (co[p].pc = "called" /\ co'[p].pc # "called" /\ missing # {})
         => /\ co'[p].pc = "done"
            /\ co'[p].result.kind = "NotFoundError"
            /\ Range(co'[p].result.missingIds) = missing
            /\ UNCHANGED dbVars]_vars

\* A request was rejected for product 3, after an order had been created.
C6_Witness ==
  \E p \in Procs :
    /\ co[p].pc = "done"
    /\ co[p].result.kind = "NotFoundError"
    /\ co[p].result.missingIds = <<3>>
    /\ DOMAIN orders = {1}

\* The transition table as the specification states it.
AllowedNext(status) ==
  CASE status = "PENDING" -> {"PROCESSING", "CANCELLED"}
    [] status = "PROCESSING" -> {"SHIPPED", "CANCELLED"}
    [] status = "SHIPPED" -> {"DELIVERED"}
    [] status = "DELIVERED" -> {"REFUNDED"}
    [] OTHER -> {}

\* C7, the checks: a call for a missing order ends with NotFoundError, a call
\* for a status outside the allowed set of the stored status ends with the
\* invalid-transition error (BadRequestError), and neither writes.
C7_Checks(p) ==
  (us[p].pc = "idle" /\ us'[p].pc # "idle") =>
    LET o == us'[p].orderId
        s == us'[p].newStatus
    IN /\ orders' = orders
       /\ o \notin DOMAIN orders =>
            us'[p].pc = "done" /\ us'[p].result = "NotFoundError"
       /\ (o \in DOMAIN orders /\ s \notin AllowedNext(orders[o].status)) =>
            us'[p].pc = "done" /\ us'[p].result = "BadRequestError"
       /\ (o \in DOMAIN orders /\ s \in AllowedNext(orders[o].status)) =>
            us'[p].pc = "update"

\* C7, the write: a call that passed the checks stores newStatus, which is in
\* the allowed set of the status stored until then, and changes nothing else.
C7_Writes(p) ==
  (us[p].pc = "update" /\ us'[p].pc # "update") =>
    LET o == us[p].orderId
        s == us[p].newStatus
    IN /\ us'[p].result = "ok"
       /\ s \in AllowedNext(orders[o].status)
       /\ orders' = [orders EXCEPT ![o].status = s]

\* C7: updateOrderStatus succeeds and stores newStatus if and only if
\* newStatus is in the allowed set of the order's current status; any other
\* request (the current status included) fails and leaves the status as it
\* is; a missing order fails with NotFoundError.
C7_TransitionChecked ==
  [][\A p \in Procs : C7_Checks(p) /\ C7_Writes(p)]_vars

\* One call has moved an order to PROCESSING and a later call for PROCESSING
\* again was refused.
C7_Witness ==
  \E p \in Procs :
    /\ us[p].pc = "done"
    /\ us[p].result = "BadRequestError"
    /\ us[p].newStatus = "PROCESSING"
    /\ orders[us[p].orderId].status = "PROCESSING"

\* C8: CANCELLED and REFUNDED are terminal, an order starts as PENDING, and
\* every change of a stored status follows the transition table.
C8_StatusPath ==
  [][/\ \A o \in DOMAIN orders :
          /\ o \in DOMAIN orders'
          /\ orders[o].status \in {"CANCELLED", "REFUNDED"} =>
               orders'[o].status = orders[o].status
          /\ orders'[o].status # orders[o].status =>
               orders'[o].status \in AllowedNext(orders[o].status)
     /\ \A o \in DOMAIN orders' \ DOMAIN orders :
          orders'[o].status = "PENDING"]_vars

\* A call on a cancelled order and a call on a refunded order were refused.
C8_Witness ==
  /\ \E o \in DOMAIN orders : orders[o].status = "REFUNDED"
  /\ \E p \in Procs :
       /\ us[p].pc = "done"
       /\ us[p].result = "BadRequestError"
       /\ orders[us[p].orderId].status = "CANCELLED"

\* ------------------------------------------------------------ cart claims
\* The carts in the cache and the carts the calls in flight are about to
\* save and return.
CartsInHand ==
  {cache[k] : k \in DOMAIN cache}
    \cup {cc[p].cart : p \in {q \in Procs : cc[q].pc \in {"save", "merge_clear"}}}

ExactTotal(items) ==
  SumSeq([i \in 1..Len(items) |-> items[i].price * items[i].quantity])

QuantitySum(items) == SumSeq([i \in 1..Len(items) |-> items[i].quantity])

WholeCents(items) == \A i \in 1..Len(items) : items[i].price % 10 = 0

\* C9 as stated: every stored cart and every cart an operation returns has
\* total equal to the sum of price * quantity over its lines and itemCount equal
\* to the sum of the quantities.
C9_TotalIsExactSum ==
  \A c \in CartsInHand :
    /\ c.total = ExactTotal(c.items)
    /\ c.itemCount = QuantitySum(c.items)

\* C9 amended: every stored cart and every cart an operation returns has total
\* equal to the sum of price * quantity over its lines rounded to two decimals
\* (a whole number of cents within half a cent of the sum, hence the sum itself
\* when every price is in whole cents) and itemCount equal to the sum of the
\* quantities.
C9_TotalIsRoundedSum ==
  \A c \in CartsInHand :
    /\ c.total % 10 = 0
    /\ c.total - ExactTotal(c.items) \in -5..5
    /\ WholeCents(c.items) => c.total = ExactTotal(c.items)
    /\ c.itemCount = QuantitySum(c.items)

\* A merge has stored a cart of two lines, one of them at a price below the
\* cent, whose total is not the exact sum.
C9_Witness ==
  \E p \in Procs :
    /\ cc[p].op = "merge" /\ cc[p].pc = "merge_clear"
    /\ GetCartKey(cc[p].userId, "") \in DOMAIN cache
    /\ LET c == cache[GetCartKey(cc[p].userId, "")]
       IN /\ c = cc[p].cart
          /\ Len(c.items) = 2
          /\ ~WholeCents(c.items)
          /\ c.total # ExactTotal(c.items)
          /\ c.itemCount > Len(c.items)

\* The lines of a cart other than the line of a product, in their order.
WithoutProduct(items, productId) ==
  SelectSeq(items, LAMBDA item : item.product_id # productId)

C10_Step ==
  /\ \A c \in {cache'[k] : k \in DOMAIN cache'} :
       \A i \in 1..Len(c.items) : c.items[i].quantity >= 1
  /\ \A p \in Procs :
       LET key == GetCartKey(cc'[p].userId, cc'[p].sessionId)
       IN /\ ( /\ cc[p].pc = "idle"
               /\ cc'[p].op = "update" /\ cc'[p].quantity = 0
               /\ key # NoKey
               /\ \E i \in 1..Len(GetCart(key).items) :
                    GetCart(key).items[i].product_id = cc'[p].product_id )
             => /\ cc'[p].pc = "save"
                /\ cc'[p].cart.items =
                     WithoutProduct(GetCart(key).items, cc'[p].product_id)
          /\ ( /\ cc[p].pc = "save" /\ cc[p].op = "update" /\ cc[p].quantity = 0
               /\ cc'[p] # cc[p] )
             => /\ cache'[GetCartKey(cc[p].userId, cc[p].sessionId)] = cc[p].cart
                /\ \A i \in 1..Len(cc[p].cart.items) :
                     cc[p].cart.items[i].product_id # cc[p].product_id

\* C10: no stored cart has a line of quantity 0 or less: after every step each
\* line of each stored cart has quantity >= 1, and updateCartItem with
\* quantity 0 on a product of the cart saves the cart without that line.
C10_NoZeroQuantityLine == [][C10_Step]_vars

\* updateCartItem with quantity 0 has taken a line out of a cart of two lines
\* and is about to save the other line.
C10_Witness ==
  \E p \in Procs :
    /\ cc[p].op = "update" /\ cc[p].quantity = 0 /\ cc[p].pc = "save"
    /\ Len(cc[p].cart.items) = 1
    /\ cc[p].cart.items[1].product_id # cc[p].product_id
    /\ LET key == GetCartKey(cc[p].userId, cc[p].sessionId)
       IN key \in DOMAIN cache /\ Len(cache[key].items) = 2

\* The key a call's identity selects.
KeyOf(call) == GetCartKey(call.userId, call.sessionId)

\* Units of a product in a list of cart lines, 0 if it has no line.
QuantityIn(items, productId) ==
  QuantitySum(SelectSeq(items, LAMBDA item : item.product_id = productId))

HasLine(items, productId) ==
  \E i \in 1..Len(items) : items[i].product_id = productId

\* Process p takes the first step of a call of operation op.
Begins(p, op) == cc[p].pc = "idle" /\ cc'[p].pc # "idle" /\ cc'[p].op = op

\* Process p takes the step of operation op that leaves position pc.
Leaves(p, op, pc) == cc[p].op = op /\ cc[p].pc = pc /\ cc'[p] # cc[p]

Fails(p, result) == cc'[p].pc = "done" /\ cc'[p].result = result

\* C11, the first check: a quantity above the stock just read is refused; any
\* other quantity of a product of the store goes on with the stock read.
C11_First(p) ==
  Begins(p, "add") /\ cc'[p].product_id \in DOMAIN products =>
    LET stock == products[cc'[p].product_id].stock_quantity
    IN /\ cache' = cache
       /\ cc'[p].quantity > stock => Fails(p, "BadRequestError")
       /\ cc'[p].quantity <= stock =>
            cc'[p].pc = "add_get" /\ cc'[p].product.stock_quantity = stock

\* C11, the cumulative check: with the cart read, the call is refused exactly
\* when the quantity in the cart plus the quantity asked exceeds that stock.
C11_Cumulative(p) ==
  Leaves(p, "add", "add_get") /\ KeyOf(cc[p]) # NoKey =>
    LET inCart == QuantityIn(GetCart(KeyOf(cc[p])).items, cc[p].product_id)
    IN /\ cache' = cache
       /\ Fails(p, "BadRequestError") <=>
            inCart + cc[p].quantity > cc[p].product.stock_quantity
       /\ cc'[p].pc = "save" <=>
            inCart + cc[p].quantity <= cc[p].product.stock_quantity

\* C11: addToCart fails with the insufficient-stock error (BadRequestError)
\* whenever the quantity already in the cart for the product (0 if none) plus
\* the quantity asked exceeds the product's stock_quantity as the call read
\* it, and a call that fails has written nothing to the cache.
C11_CumulativeStockCheck ==
  [][\A p \in Procs : C11_First(p) /\ C11_Cumulative(p)]_vars

\* An add of a quantity the stock covers was refused because of the units
\* already in the cart, and the cart is as it was.
C11_Witness ==
  \E p \in Procs :
    /\ cc[p].op = "add" /\ cc[p].pc = "done" /\ cc[p].result = "BadRequestError"
    /\ cc[p].product_id \in DOMAIN products
    /\ cc[p].quantity <= products[cc[p].product_id].stock_quantity
    /\ KeyOf(cc[p]) \in DOMAIN cache
    /\ QuantityIn(cache[KeyOf(cc[p])].items, cc[p].product_id) >= 1

\* The total and itemCount of a cart are those of its lines.
Recomputed(cart) ==
  /\ cart.total % 10 = 0
  /\ cart.total - ExactTotal(cart.items) \in -5..5
  /\ cart.itemCount = QuantitySum(cart.items)

\* C12, the snapshot: the call reads the product's price and name in the
\* store.
C12_Reads(p) ==
  Begins(p, "add") /\ cc'[p].pc = "add_get" =>
    /\ cc'[p].product.id = cc'[p].product_id
    /\ cc'[p].product.price = products[cc'[p].product_id].price
    /\ cc'[p].product.name = products[cc'[p].product_id].name

\* C12, the new cart: one line appended for a product new to the cart, the
\* quantity of the product's line raised otherwise, the other lines as read.
C12_Builds(p) ==
  Leaves(p, "add", "add_get") /\ cc'[p].pc = "save" =>
    LET old == GetCart(KeyOf(cc[p])).items
        new == cc'[p].cart.items
        id == cc[p].product_id
    IN /\ Recomputed(cc'[p].cart)
       /\ ~HasLine(old, id) =>
            /\ Len(new) = Len(old) + 1
            /\ SubSeq(new, 1, Len(old)) = old
            /\ new[Len(new)].product_id = id
            /\ new[Len(new)].quantity = cc[p].quantity
            /\ new[Len(new)].price = cc[p].product.price
            /\ new[Len(new)].name = cc[p].product.name
       /\ HasLine(old, id) =>
            /\ Len(new) = Len(old)
            /\ \A i \in 1..Len(old) :
                 new[i] = IF old[i].product_id = id
                          THEN [old[i] EXCEPT !.quantity = @ + cc[p].quantity]
                          ELSE old[i]

\* The step that saves: the cart built is stored under the caller's key,
\* nothing else in the cache changes, and the call returns that cart.
Saves(p, op) ==
  Leaves(p, op, "save") =>
    /\ DOMAIN cache' = DOMAIN cache \cup {KeyOf(cc[p])}
    /\ \A k \in DOMAIN cache' :
         cache'[k] = IF k = KeyOf(cc[p]) THEN cc[p].cart ELSE cache[k]
    /\ cc'[p].pc = "done" /\ cc'[p].result = "ok" /\ cc'[p].cart = cc[p].cart

\* C12: a successful addToCart appends exactly one line, with the quantity
\* asked and the price and name the call read from the store, for a product
\* new to the cart, and raises the line's quantity by the quantity asked
\* otherwise; the other lines and the order are unchanged, and the recomputed
\* cart is stored under the caller's key and returned.
C12_AddAppendsOrRaises ==
  [][\A p \in Procs : C12_Reads(p) /\ C12_Builds(p) /\ Saves(p, "add")]_vars

\* An add has returned a stored cart of two lines whose last line it pushed
\* at a price the store no longer has.
C12_Witness ==
  \E p \in Procs :
    /\ cc[p].op = "add" /\ cc[p].pc = "done" /\ cc[p].result = "ok"
    /\ Len(cc[p].cart.items) = 2
    /\ cc[p].cart.items[2].product_id = cc[p].product_id
    /\ cc[p].cart.items[2].price # products[cc[p].product_id].price
    /\ KeyOf(cc[p]) \in DOMAIN cache /\ cache[KeyOf(cc[p])] = cc[p].cart

\* C13, the first step: for a quantity above 0 and a product of the cart the
\* call goes on to the stock check with the cart it read.
C13_Reads(p) ==
  ( /\ Begins(p, "update") /\ cc'[p].quantity > 0 /\ KeyOf(cc'[p]) # NoKey
    /\ HasLine(GetCart(KeyOf(cc'[p])).items, cc'[p].product_id) )
  => /\ cc'[p].pc = "update_find"
     /\ cc'[p].cart = GetCart(KeyOf(cc'[p]))
     /\ cache' = cache

\* C13, the stock check: within the stock of the store the line's quantity
\* becomes the quantity asked and nothing else changes; above it the call is
\* refused.
C13_Sets(p) ==
  Leaves(p, "update", "update_find") /\ cc[p].product_id \in DOMAIN products =>
    LET old == cc[p].cart.items
        new == cc'[p].cart.items
        id == cc[p].product_id
        stock == products[id].stock_quantity
    IN /\ cache' = cache
       /\ cc[p].quantity > stock => Fails(p, "BadRequestError")
       /\ cc[p].quantity <= stock =>
            /\ cc'[p].pc = "save"
            /\ Recomputed(cc'[p].cart)
            /\ Len(new) = Len(old)
            /\ \A i \in 1..Len(old) :
                 new[i] = IF old[i].product_id = id
                          THEN [old[i] EXCEPT !.quantity = cc[p].quantity]
                          ELSE old[i]

\* C13: updateCartItem with a quantity above 0 on a line of the cart sets the
\* line's quantity to exactly that quantity when it is within the product's
\* stock_quantity in the store, stores and returns that cart, and otherwise
\* fails with the insufficient-stock error (BadRequestError) without a cache
\* write.
C13_UpdateSetsQuantity ==
  [][\A p \in Procs : C13_Reads(p) /\ C13_Sets(p) /\ Saves(p, "update")]_vars

\* An update has lowered a line of two units to one unit.
C13_Witness ==
  \E p \in Procs :
    /\ cc[p].op = "update" /\ cc[p].pc = "save" /\ cc[p].quantity = 1
    /\ QuantityIn(cc[p].cart.items, cc[p].product_id) = 1
    /\ KeyOf(cc[p]) \in DOMAIN cache
    /\ QuantityIn(cache[KeyOf(cc[p])].items, cc[p].product_id) = 2

\* C14, the first steps: updateCartItem with quantity 0 builds the cart
\* removeFromCart builds from the same stored cart, and removeFromCart the
\* cart updateCartItem with quantity 0 builds.
C14_Builds(p) ==
  LET call == cc'[p]
      cart == GetCart(KeyOf(call))
      remove == NewCartCall("remove", call.userId, call.sessionId,
                            call.product_id, 0)
      update == NewCartCall("update", call.userId, call.sessionId,
                            call.product_id, 0)
  IN /\ ( /\ Begins(p, "update") /\ call.quantity = 0 /\ KeyOf(call) # NoKey
          /\ HasLine(cart.items, call.product_id) )
        => /\ call.pc = "save"
           /\ RemoveFromCartOn(remove, cart).pc = "save"
           /\ call.cart = RemoveFromCartOn(remove, cart).cart
     /\ ( /\ Begins(p, "remove") /\ KeyOf(call) # NoKey
          /\ HasLine(cart.items, call.product_id) )
        => /\ call.pc = "save"
           /\ UpdateCartItemOn(update, cart).pc = "save"
           /\ call.cart = UpdateCartItemOn(update, cart).cart

\* C14: on a product that is a line of the cart, updateCartItem with quantity
\* 0 and removeFromCart build the same cart (items, order, total, itemCount)
\* from the same stored cart, and each stores and returns the cart it built.
C14_UpdateZeroIsRemove ==
  [][\A p \in Procs :
       C14_Builds(p) /\ Saves(p, "update") /\ Saves(p, "remove")]_vars

\* A removeFromCart and an updateCartItem with quantity 0 of the same product
\* on the same key have returned the same cart.
C14_Witness ==
  \E p, q \in Procs :
    /\ cc[p].op = "remove" /\ cc[p].pc = "done" /\ cc[p].result = "ok"
    /\ cc[q].op = "update" /\ cc[q].pc = "done" /\ cc[q].result = "ok"
    /\ cc[q].quantity = 0
    /\ KeyOf(cc[p]) = KeyOf(cc[q]) /\ cc[p].product_id = cc[q].product_id
    /\ cc[p].cart = cc[q].cart

\* C15: a cart call that ends with NotFoundError writes nothing: addToCart
\* for a product id absent from the store, and updateCartItem or
\* removeFromCart for a product that is not a line of the caller's cart, fail
\* with NotFoundError and leave every key and stored cart as it was.
C15_NotFoundWritesNothing ==
  [][\A p \in Procs :
       LET call == cc'[p] IN
         /\ Begins(p, "add") /\ call.product_id \notin DOMAIN products
            => Fails(p, "NotFoundError") /\ cache' = cache
         /\ ( /\ Begins(p, "update") \/ Begins(p, "remove")
              /\ KeyOf(call) # NoKey
              /\ ~HasLine(GetCart(KeyOf(call)).items, call.product_id) )
            => Fails(p, "NotFoundError") /\ cache' = cache
         /\ cc'[p] # cc[p] /\ Fails(p, "NotFoundError") => cache' = cache]_vars

\* removeFromCart was refused for a product of the store that is not in the
\* caller's stored cart of one line.
C15_Witness ==
  \E p \in Procs :
    /\ cc[p].op = "remove" /\ cc[p].pc = "done"
    /\ cc[p].result = "NotFoundError"
    /\ cc[p].product_id \in DOMAIN products
    /\ KeyOf(cc[p]) \in DOMAIN cache
    /\ Len(cache[KeyOf(cc[p])].items) = 1

\* The carts of the cache, and the empty cart of an absent key.
StoredCarts == {cache[k] : k \in DOMAIN cache} \cup {EmptyCart}

AddCall(productId, quantity) ==
  [NewCartCall("add", 1, "", productId, quantity)
     EXCEPT !.product = FindUniqueProduct(productId)]

\* addToCart of quantity units of a product of the store succeeds on a cart.
AddSucceeds(cart, productId, quantity) ==
  /\ products[productId].stock_quantity >= quantity
  /\ AddToCartOn(AddCall(productId, quantity), cart).pc = "save"

\* The cart removeFromCart stores after a successful addToCart of the same
\* product stored its cart.
AfterAddThenRemove(cart, productId, quantity) ==
  RemoveFromCartOn(NewCartCall("remove", 1, "", productId, 0),
                   AddToCartOn(AddCall(productId, quantity), cart).cart).cart

\* C16 as stated: for every stored cart and every product, a successful
\* addToCart followed by removeFromCart of the product on the same key
\* returns the cart to the total and itemCount it had before the add.
C16_RoundTrip ==
  \A cart \in StoredCarts, productId \in DOMAIN products, quantity \in 1..MaxQty :
    AddSucceeds(cart, productId, quantity) =>
      LET after == AfterAddThenRemove(cart, productId, quantity)
      IN after.total = cart.total /\ after.itemCount = cart.itemCount

\* C16 amended: for every stored cart and every product that is not a line of
\* it, a successful addToCart followed by removeFromCart of the product on the
\* same key returns the cart to the lines, total and itemCount it had before
\* the add.
C16_RoundTripOfNewLine ==
  \A cart \in StoredCarts, productId \in DOMAIN products, quantity \in 1..MaxQty :
    AddSucceeds(cart, productId, quantity) /\ ~HasLine(cart.items, productId) =>
      LET after == AfterAddThenRemove(cart, productId, quantity)
      IN /\ after.items = cart.items
         /\ after.total = cart.total
         /\ after.itemCount = cart.itemCount

\* After two adds, a removeFromCart is about to store the cart without the
\* line the last add pushed: the stored cart has two lines, the cart to store
\* the first of them.
C16_Witness ==
  \E p \in Procs :
    /\ cc[p].op = "remove" /\ cc[p].pc = "save" /\ cartCalls = MaxCartCalls
    /\ KeyOf(cc[p]) \in DOMAIN cache
    /\ Len(cache[KeyOf(cc[p])].items) = 2
    /\ cache[KeyOf(cc[p])].items[2].product_id = cc[p].product_id
    /\ cc[p].cart.items = <<cache[KeyOf(cc[p])].items[1]>>
    /\ cc[p].cart.total = cache[KeyOf(cc[p])].items[1].price
                            * cache[KeyOf(cc[p])].items[1].quantity

\* The user key and the session key of a mergeCart call.
UserKeyOf(call) == <<"cart:user:", ToString(call.userId)>>

SessionKeyOf(call) == <<"cart:session:", call.sessionId>>

\* The stored cart under a key, the empty cart for an absent key.
Stored(key) ==
  IF key \in DOMAIN cache THEN cache[key]
  ELSE [items |-> <<>>, total |-> 0, itemCount |-> 0]

\* Every key but those of a set is in the cache after the step as before.
OnlyChanges(keys) ==
  \A k \in (DOMAIN cache \cup DOMAIN cache') \ keys :
    k \in DOMAIN cache /\ k \in DOMAIN cache' /\ cache'[k] = cache[k]

\* The user lines in order, each raised by the session quantity of its
\* product, followed by the session lines of products the user cart lacks.
Merged(userItems, sessionItems) ==
  [i \in 1..Len(userItems) |->
     [userItems[i] EXCEPT
        !.quantity = @ + QuantityIn(sessionItems, userItems[i].product_id)]]
  \o SelectSeq(sessionItems, LAMBDA item : ~HasLine(userItems, item.product_id))

\* mergeCart's first step reads the session cart and writes nothing.
MergeReadsSession(p) ==
  Begins(p, "merge") /\ cc'[p].sessionId # "" =>
    /\ cc'[p].pc = "merge_user"
    /\ cc'[p].sessionCart = Stored(SessionKeyOf(cc'[p]))
    /\ cache' = cache

\* C17, the merged cart: with a session cart of at least one line the call
\* never fails; it builds the merged lines from the user cart it reads.
C17_Builds(p) ==
  ( /\ Leaves(p, "merge", "merge_user") /\ cc[p].userId # 0
    /\ Len(cc[p].sessionCart.items) > 0 )
  => /\ cc'[p].pc = "save"
     /\ cc'[p].cart.items =
          Merged(Stored(UserKeyOf(cc[p])).items, cc[p].sessionCart.items)
     /\ Recomputed(cc'[p].cart)
     /\ cache' = cache

\* C17, the writes: the merged cart is stored under the user key, then the
\* session key is deleted and the merged cart returned.
C17_Writes(p) ==
  /\ Leaves(p, "merge", "save") =>
       /\ UserKeyOf(cc[p]) \in DOMAIN cache'
       /\ cache'[UserKeyOf(cc[p])] = cc[p].cart
       /\ OnlyChanges({UserKeyOf(cc[p])})
       /\ cc'[p] = [cc[p] EXCEPT !.pc = "merge_clear"]
  /\ Leaves(p, "merge", "merge_clear") =>
       /\ SessionKeyOf(cc[p]) \notin DOMAIN cache'
       /\ OnlyChanges({SessionKeyOf(cc[p])})
       /\ cc'[p].pc = "done" /\ cc'[p].result = "ok"
       /\ cc'[p].cart = cc[p].cart

\* C17: mergeCart with a session cart of at least one line stores under the
\* user key, and returns, the user lines in order with each quantity raised
\* by the session quantity of the same product followed by the session lines
\* of products not in the user cart; it checks no stock and never fails for
\* it; when it returns the session key is gone.
C17_MergeAddsQuantities ==
  [][\A p \in Procs :
       MergeReadsSession(p) /\ C17_Builds(p) /\ C17_Writes(p)]_vars

\* A merge has returned a cart, stored under the user key, with a line of
\* more units than the product has in stock, and the session key is gone.
C17_Witness ==
  \E p \in Procs :
    /\ cc[p].op = "merge" /\ cc[p].pc = "done" /\ cc[p].result = "ok"
    /\ SessionKeyOf(cc[p]) \notin DOMAIN cache
    /\ UserKeyOf(cc[p]) \in DOMAIN cache
    /\ cache[UserKeyOf(cc[p])] = cc[p].cart
    /\ \E i \in 1..Len(cc[p].cart.items) :
         cc[p].cart.items[i].quantity >
           products[cc[p].cart.items[i].product_id].stock_quantity

C19_AbsentKeyIsEmptyCart ==
  [][\A p \in Procs :
       /\ Begins(p, "get") /\ KeyOf(cc'[p]) # NoKey =>
            /\ cc'[p].pc = "done" /\ cc'[p].result = "ok"
            /\ cc'[p].cart = Stored(KeyOf(cc'[p]))
            /\ cache' = cache
       /\ Begins(p, "clear") /\ KeyOf(cc'[p]) # NoKey =>
            /\ cc'[p].pc = "done" /\ cc'[p].result = "ok"
            /\ KeyOf(cc'[p]) \notin DOMAIN cache'
            /\ OnlyChanges({KeyOf(cc'[p])})
            /\ KeyOf(cc'[p]) \notin DOMAIN cache => cache' = cache]_vars

\* After a clearCart of a key, a getCart of that key has returned the empty
\* cart and the key does not exist, while another key holds a cart.
C19_Witness ==
  \E p, q \in Procs :
    /\ cc[p].op = "clear" /\ cc[p].pc = "done" /\ cc[p].result = "ok"
    /\ cc[q].op = "get" /\ cc[q].pc = "done" /\ cc[q].result = "ok"
    /\ KeyOf(cc[p]) = KeyOf(cc[q])
    /\ cc[q].cart = [items |-> <<>>, total |-> 0, itemCount |-> 0]
    /\ KeyOf(cc[q]) \notin DOMAIN cache
    /\ DOMAIN cache # {}

\* The key the claim assigns to an identity; <<>> when neither a userId nor a
\* sessionId is supplied.
ExpectedKey(userId, sessionId) ==
  IF userId # 0 THEN <<"cart:user:", ToString(userId)>>
  ELSE IF sessionId # "" THEN <<"cart:session:", sessionId>>
  ELSE <<>>

\* The call of which process p takes a step.
Acting(p) == IF cc[p].pc = "idle" THEN cc'[p] ELSE cc[p]

\* Process p takes a step of a call.
Moves(p) == cc'[p] # cc[p] /\ cc[p].pc # "done"

NoIdentity(call) == call.userId = 0 /\ call.sessionId = ""

\* C20, the key: a step of a call other than mergeCart touches no key but the
\* one of the call's identity, getCart answers what is stored under it and a
\* save stores under it; mergeCart writes the user key when it saves and the
\* session key when it clears.
C20_Key(p) ==
  LET call == Acting(p)
      key == ExpectedKey(call.userId, call.sessionId)
  IN /\ Moves(p) /\ call.op # "merge" =>
          /\ OnlyChanges({key} \ {<<>>})
          /\ Begins(p, "get") /\ key # <<>> => cc'[p].cart = Stored(key)
          /\ cc[p].pc = "save" => key \in DOMAIN cache' /\ cache'[key] = cc[p].cart
     /\ Moves(p) /\ call.op = "merge" =>
          OnlyChanges(IF cc[p].pc = "save" THEN {UserKeyOf(call)}
                      ELSE IF cc[p].pc = "merge_clear" THEN {SessionKeyOf(call)}
                      ELSE {})

\* C20, no identity, as stated: a call with neither id ends with the identity
\* error.
C20_IdentityError(p) ==
  (Moves(p) /\ NoIdentity(Acting(p)) /\ cc'[p].pc = "done") =>
    cc'[p].result = "Error"

\* C20, no identity, amended: a call with neither id ends with the identity
\* error, unless it is an addToCart whose product is absent from the store
\* (NotFoundError) or has less stock than the quantity asked
\* (BadRequestError).
C20_IdentityErrorAfterLookup(p) ==
  LET call == Acting(p) IN
    (Moves(p) /\ NoIdentity(call)) =>
      IF call.op = "add" /\ cc[p].pc = "idle"
      THEN IF call.product_id \notin DOMAIN products
           THEN Fails(p, "NotFoundError")
           ELSE IF products[call.product_id].stock_quantity < call.quantity
           THEN Fails(p, "BadRequestError")
           ELSE cc'[p].pc = "add_get"
      ELSE Fails(p, "Error")

\* C20 as stated: every cart operation acts on the one key of its identity
\* (the user key whenever a userId is supplied, the session key when only a
\* sessionId is), a call with neither fails with the identity error before any
\* cache read or write, and carts under other keys are untouched except by
\* mergeCart.
C20_OneKeyPerCall ==
  [][\A p \in Procs : C20_Key(p) /\ C20_IdentityError(p)]_vars

\* C20 amended: every cart operation acts on the one key of its identity (the
\* user key whenever a userId is supplied, the session key when only a
\* sessionId is); a call with neither fails before any cache read or write,
\* with the identity error unless it is an addToCart that its product lookup
\* or first stock check has already refused; carts under other keys are
\* untouched except by mergeCart.
C20_OneKeyPerCallAfterLookup ==
  [][\A p \in Procs : C20_Key(p) /\ C20_IdentityErrorAfterLookup(p)]_vars

\* An addToCart with a userId and a sessionId has stored its cart under the
\* user key while the session key holds another cart; and an addToCart with
\* neither has ended with the identity error.
C20_Witness ==
  \E p, q \in Procs :
    /\ cc[p].op = "add" /\ cc[p].pc = "done" /\ cc[p].result = "ok"
    /\ cc[p].userId # 0 /\ cc[p].sessionId # ""
    /\ UserKeyOf(cc[p]) \in DOMAIN cache /\ cache[UserKeyOf(cc[p])] = cc[p].cart
    /\ SessionKeyOf(cc[p]) \in DOMAIN cache
    /\ cache[SessionKeyOf(cc[p])] # cc[p].cart
    /\ cc[q].op = "add" /\ cc[q].pc = "done" /\ cc[q].result = "Error"
    /\ NoIdentity(cc[q])

\* The lifetimes are those of the stored keys, each between one second and
\* the configured TTL.
LifetimesInRange ==
  /\ DOMAIN ttl' = DOMAIN cache'
  /\ \A k \in DOMAIN ttl' : ttl'[k] \in 1..CART_TTL

\* C21, the save: the step that saves a cart stores it under the call's key
\* and gives that key the full TTL, whatever it had left; no other key's
\* document or lifetime changes.
C21_SaveResets(p) ==
  (cc[p].pc = "save" /\ cc'[p] # cc[p]) =>
    LET key == IF cc[p].op = "merge" THEN UserKeyOf(cc[p])
               ELSE ExpectedKey(cc[p].userId, cc[p].sessionId)
    IN /\ cc[p].op \in {"add", "update", "remove", "merge"}
       /\ key \in DOMAIN cache' /\ cache'[key] = cc[p].cart
       /\ ttl'[key] = CART_TTL
       /\ \A k \in (DOMAIN cache \cup DOMAIN cache') \ {key} :
            /\ k \in DOMAIN cache /\ k \in DOMAIN cache'
            /\ cache'[k] = cache[k] /\ ttl'[k] = ttl[k]

\* C21, expiry: a key leaves the cache only when a clear (or the clear of a
\* merge) deletes it or when its last second passes; a lifetime changes only
\* by a save or by one second at a time.
C21_ExpiresOnlyAtTheEnd ==
  \A k \in DOMAIN cache :
    /\ k \notin DOMAIN cache' =>
         \/ \E p \in Procs :
              /\ Moves(p)
              /\ \/ Acting(p).op = "clear" /\
                      k = ExpectedKey(Acting(p).userId, Acting(p).sessionId)
                 \/ Leaves(p, "merge", "merge_clear") /\ k = SessionKeyOf(cc[p])
         \/ cc' = cc /\ ttl[k] = 1
    /\ k \in DOMAIN cache' =>
         \/ ttl'[k] = ttl[k]
         \/ ttl'[k] = ttl[k] - 1 /\ cc' = cc
         \/ \E p \in Procs : cc[p].pc = "save" /\ cc'[p] # cc[p]

\* C21, the read: getCart on a key that is not in the cache, expired or never
\* stored, answers the empty cart and no error.
C21_ExpiredReadsEmpty(p) ==
  (Begins(p, "get")
   /\ ExpectedKey(cc'[p].userId, cc'[p].sessionId) # <<>>
   /\ ExpectedKey(cc'[p].userId, cc'[p].sessionId) \notin DOMAIN cache) =>
    /\ cc'[p].pc = "done" /\ cc'[p].result = "ok"
    /\ cc'[p].cart = [items |-> <<>>, total |-> 0, itemCount |-> 0]

\* C21: every save overwrites the key and resets its remaining lifetime to
\* the full TTL; a key expires only when the full TTL has passed since its
\* last save (its lifetime falls by one per second and only a save raises it),
\* so a cart saved at intervals shorter than the TTL does not expire; a key
\* that has expired is read as the empty cart with no error.
C21_SlidingExpiry ==
  [][/\ LifetimesInRange
     /\ C21_ExpiresOnlyAtTheEnd
     /\ \A p \in Procs : C21_SaveResets(p) /\ C21_ExpiredReadsEmpty(p)]_vars

\* updateCartItem is about to save a changed cart under a key that was saved
\* before and has one second left.
C21_Witness ==
  \E p \in Procs :
    /\ cc[p].pc = "save" /\ cc[p].op = "update"
    /\ KeyOf(cc[p]) \in DOMAIN cache
    /\ ttl[KeyOf(cc[p])] = 1
    /\ cache[KeyOf(cc[p])] # cc[p].cart

\* The number of order rows of customer c and the sum of their totals.
OrderCount(c) == Cardinality({o \in DOMAIN orders : orders[o].customer_id = c})

RECURSIVE TotalOfOrders(_, _)
TotalOfOrders(c, upTo) ==
  IF upTo = 0 THEN 0
  ELSE TotalOfOrders(c, upTo - 1) +
       (IF upTo \in DOMAIN orders /\ orders[upTo].customer_id = c
        THEN orders[upTo].total ELSE 0)

\* C22, the counters: each customer's total_orders is the number of the
\* customer's order rows and total_spent the sum of their totals.
C22_AggregatesMatch ==
  \A c \in DOMAIN customers :
    /\ customers[c].total_orders = OrderCount(c)
    /\ customers[c].total_spent = TotalOfOrders(c, orderSeq)

\* C22, the writer: the customer table changes only in the step in which a
\* createOrder call commits its transaction, and then only the row of that
\* call's customer.
C22_OnlyCreateOrderWrites ==
  customers' # customers =>
    \E p \in Procs :
      /\ co[p].pc = "tx" /\ co'[p].pc = "done" /\ co'[p].result.kind = "ok"
      /\ DOMAIN customers' = DOMAIN customers
      /\ \A c \in DOMAIN customers \ {co[p].customerId} :
           customers'[c] = customers[c]

\* C22: starting from customers with zero aggregates, in every reachable
\* state, interleaved createOrder calls included, each customer's total_orders
\* equals the number of order rows of that customer and total_spent the sum of
\* their totals; only createOrder changes these fields.
C22_CustomerAggregates ==
  []C22_AggregatesMatch /\ [][C22_OnlyCreateOrderWrites]_vars

\* Two interleaved createOrder calls of customer 1 have both committed (they
\* sold more than the stock, which calls one after another cannot do) and the
\* customer counts two orders.
C22_Witness ==
  /\ customers[1].total_orders = 2
  /\ customers[1].total_spent > 0
  /\ DOMAIN orders = {1, 2}
  /\ \E id \in DOMAIN products : products[id].stock_quantity < 0

\* C23, the orders: an order that exists keeps its customer, its total and
\* its lines.
C23_OrdersKept ==
  \A o \in DOMAIN orders :
    /\ o \in DOMAIN orders'
    /\ orders'[o].total = orders[o].total
    /\ orders'[o].customer_id = orders[o].customer_id
    /\ SelectSeq(orderItems', LAMBDA r : r.order_id = o) =
         SelectSeq(orderItems, LAMBDA r : r.order_id = o)

\* C23, the status write: the step in which updateOrderStatus writes changes
\* the status field of its order and nothing else in the store.
C23_StatusOnly(p) ==
  (us[p].pc # "idle" /\ us'[p] # us[p]) =>
    /\ products' = products
    /\ customers' = customers
    /\ orderItems' = orderItems
    /\ DOMAIN orders' = DOMAIN orders
    /\ \A o \in DOMAIN orders :
         /\ [orders'[o] EXCEPT !.status = orders[o].status] = orders[o]
         /\ orders'[o].status # orders[o].status => o = us[p].orderId

\* C23, the price: a change of a product's price changes no order and no
\* order line.
C23_PriceOnly ==
  (\E id \in DOMAIN products : products'[id].price # products[id].price) =>
    orders' = orders /\ orderItems' = orderItems

\* C23: after an order is created its total and its lines (product_id,
\* quantity, price) are never changed: updateOrderStatus changes only the
\* status field, a later createOrder touches only its own order, a later
\* change of a product's price alters no line, and updateOrderStatus (to
\* CANCELLED or REFUNDED too) leaves every product's stock and every
\* customer's aggregates as they are.
C23_OrderImmutable ==
  [][/\ C23_OrdersKept
     /\ C23_PriceOnly
     /\ \A p \in Procs : C23_StatusOnly(p)]_vars

\* Order 1 was cancelled and a second order created after it; the line of
\* order 1 keeps a price the product no longer has, and the units it took
\* are still out of the stock.
C23_Witness ==
  /\ DOMAIN orders = {1, 2}
  /\ orders[1].status = "CANCELLED"
  /\ \E i \in 1..Len(orderItems) :
       /\ orderItems[i].order_id = 1
       /\ orderItems[i].price # products[orderItems[i].product_id].price
  /\ \A id \in DOMAIN products :
       products[id].stock_quantity =
         InitProducts[id].stock_quantity - OrderedQuantity(id)
  /\ customers[1].total_orders = 2

\* The price on the line of a product in a list of cart lines.
LinePrice(items, productId) ==
  items[CHOOSE i \in 1..Len(items) : items[i].product_id = productId].price

\* C24: the cart line of the product of a successful addToCart or
\* updateCartItem carries the product's current store price (the price in the
\* store when the call looked the product up), also when the price changed
\* after the line was first added.
C24_LineCarriesStorePrice ==
  [][\A p \in Procs :
       /\ (Leaves(p, "add", "add_get") /\ cc'[p].pc = "save") =>
            LinePrice(cc'[p].cart.items, cc[p].product_id) = cc[p].product.price
       /\ (Leaves(p, "update", "update_find") /\ cc'[p].pc = "save") =>
            LinePrice(cc'[p].cart.items, cc[p].product_id) =
              products[cc[p].product_id].price]_vars

\* A call of addToCart, updateCartItem or removeFromCart that has answered a
\* cart.
Mutated(call) ==
  call.pc = "done" /\ call.result = "ok" /\ call.op \in {"add", "update", "remove"}

\* C25, the save: whatever is stored under the key by then, also a cart the
\* call never read, the save replaces it by the cart the call computed from
\* the cart it read.
C25_SaveReplaces(p) ==
  (cc[p].pc = "save" /\ cc[p].op # "merge" /\ cc'[p] # cc[p]) =>
    LET key == ExpectedKey(cc[p].userId, cc[p].sessionId)
    IN cache' = [k \in DOMAIN cache \cup {key} |->
                   IF k = key THEN cc[p].cart ELSE cache[k]]

\* C25, the outcome: when two mutations of one key have both completed, the
\* stored cart is the cart one of them computed and returned.
C25_NoMixture ==
  \A p, q \in Procs :
    ( /\ p # q /\ Mutated(cc[p]) /\ Mutated(cc[q])
      /\ ExpectedKey(cc[p].userId, cc[p].sessionId) =
           ExpectedKey(cc[q].userId, cc[q].sessionId) )
    => LET key == ExpectedKey(cc[p].userId, cc[p].sessionId)
       IN key \in DOMAIN cache /\ cache[key] \in {cc[p].cart, cc[q].cart}

\* C25: cart mutations on one key are read-modify-write steps without a lock,
\* and the last write wins: the cart stored after two concurrent mutations of
\* the same cart is the cart computed by the one that saved last from the cart
\* it read, never a mixture of the two writes.
C25_LastWriteWins ==
  []C25_NoMixture /\ [][\A p \in Procs : C25_SaveReplaces(p)]_vars

\* The only two calls made, addToCart calls for different products on one
\* key, have both succeeded and the stored cart has the line of one of them
\* only: the other's effect is lost.
C25_Witness ==
  \E p, q \in Procs :
    /\ cartCalls = 2
    /\ cc[p].op = "add" /\ cc[q].op = "add"
    /\ Mutated(cc[p]) /\ Mutated(cc[q])
    /\ cc[p].product_id # cc[q].product_id
    /\ KeyOf(cc[p]) = KeyOf(cc[q])
    /\ KeyOf(cc[p]) \in DOMAIN cache
    /\ cache[KeyOf(cc[p])] = cc[q].cart
    /\ Len(cc[q].cart.items) = 1
    /\ Len(cc[p].cart.items) = 1

\* C26: under any interleaving of updateOrderStatus calls on one order, every
\* status write goes from the status stored immediately before it to a status
\* in that status's allowed set, so the stored statuses form a path of the
\* transition table (a cancelled order is never left in PROCESSING).
C26_WritesFollowTable ==
  [][\A p \in Procs :
       (us[p].pc = "update" /\ us'[p].pc = "done") =>
         LET o == us[p].orderId
         IN orders'[o].status \in AllowedNext(orders[o].status)]_vars

\* C27: createOrder neither reads nor writes a cart: every step of a
\* createOrder call, successful or failed, leaves every cart key of the cache
\* (document and lifetime) as it was, the customer's own cart included.
C27_CreateOrderLeavesCarts ==
  [][\A p \in Procs :
       co'[p] # co[p] => /\ cache' = cache
                         /\ ttl' = ttl
                         /\ cc' = cc]_vars

\* A createOrder of customer 1 has succeeded and the customer's cart is still
\* stored with its lines.
C27_Witness ==
  \E p \in Procs :
    /\ co[p].pc = "done" /\ co[p].result.kind = "ok"
    /\ orders[co[p].result.orderId].customer_id = 1
    /\ <<"cart:user:", "1">> \in DOMAIN cache
    /\ Len(cache[<<"cart:user:", "1">>].items) >= 1

\* No two lines of the list are of the same product.
OneLinePerProduct(items) ==
  \A i, j \in 1..Len(items) :
    items[i].product_id = items[j].product_id => i = j

\* C28: in every stored cart reachable from empty carts through any sequence
\* or interleaving of addToCart, updateCartItem, removeFromCart, clearCart and
\* mergeCart, each product_id appears in at most one line.
C28_OneLinePerProduct ==
  \A k \in DOMAIN cache : OneLinePerProduct(cache[k].items)

\* A merge has stored the user cart and is about to clear the session cart;
\* both carts had a line of the same product, and the stored user cart has
\* one line of it, with the two quantities.
C28_Witness ==
  \E p \in Procs :
    /\ cc[p].op = "merge" /\ cc[p].pc = "merge_clear"
    /\ UserKeyOf(cc[p]) \in DOMAIN cache
    /\ SessionKeyOf(cc[p]) \in DOMAIN cache
    /\ LET user == cache[UserKeyOf(cc[p])].items
           session == cache[SessionKeyOf(cc[p])].items
       IN /\ Len(user) = 1 /\ Len(session) = 1
          /\ user[1].product_id = session[1].product_id
          /\ user[1].quantity > session[1].quantity

\* C29: createOrder raises NotFoundError only when a requested product_id is
\* not in the store: a request the schema admits, the same product named in
\* more than one item included, all of whose products exist is not rejected as
\* not-found.
C29_NotFoundOnlyIfMissing ==
  [][\A p \in Procs :
       ( /\ co[p].pc = "called" /\ co'[p].pc # "called"
         /\ \A i \in 1..Len(co[p].items) :
              co[p].items[i].product_id \in DOMAIN products )
       => co'[p].result.kind # "NotFoundError"]_vars

\* The products that have a line in a list of cart lines.
ProductsIn(items) == {items[i].product_id : i \in 1..Len(items)}

\* The products that have a line in the cart stored under the key.
StoredProducts(key) ==
  IF key \in DOMAIN cache THEN ProductsIn(cache[key].items) ELSE {}

\* C30, nothing lost: while a merge is under way every product of the
\* session cart it read, and every product of the merged cart it has built,
\* is a line of the stored session cart or of the stored user cart.
C30_NothingLost ==
  \A p \in Procs :
    cc[p].op = "merge" =>
      LET stored == StoredProducts(SessionKeyOf(cc[p])) \cup
                      StoredProducts(UserKeyOf(cc[p]))
      IN /\ cc[p].pc = "merge_user" =>
              ProductsIn(cc[p].sessionCart.items) \subseteq stored
         /\ cc[p].pc \in {"save", "merge_clear"} =>
              ProductsIn(cc[p].cart.items) \subseteq stored
         /\ cc[p].pc = "merge_clear" =>
              StoredProducts(SessionKeyOf(cc[p])) \subseteq
                StoredProducts(UserKeyOf(cc[p]))

\* C30, the order of the writes: the merged cart is saved under the user key
\* with the session cart still stored, and the session key is deleted in a
\* later step.
C30_SaveBeforeClear(p) ==
  /\ Leaves(p, "merge", "save") =>
       /\ cc'[p].pc = "merge_clear"
       /\ cache'[UserKeyOf(cc[p])] = cc[p].cart
       /\ SessionKeyOf(cc[p]) \in DOMAIN cache'
       /\ cache'[SessionKeyOf(cc[p])] = cache[SessionKeyOf(cc[p])]
  /\ Leaves(p, "merge", "merge_clear") =>
       /\ SessionKeyOf(cc[p]) \notin DOMAIN cache'
       /\ cache'[UserKeyOf(cc[p])] = cache[UserKeyOf(cc[p])]

\* C30, the repeat: once a merge has completed the stored session cart has
\* no line and the stored user cart is the cart the merge returned ...
C30_Completed ==
  \A p \in Procs :
    (cc[p].op = "merge" /\ cc[p].pc = "done" /\ cc[p].result = "ok") =>
      /\ StoredProducts(SessionKeyOf(cc[p])) = {}
      /\ Stored(UserKeyOf(cc[p])) = cc[p].cart

\* ... and a mergeCart for a user that finds no line in the session cart
\* writes nothing and returns the stored user cart.
C30_RepeatIsNoOp(p) ==
  ( /\ cc[p].op = "merge" /\ cc[p].pc # "done" /\ cc'[p] # cc[p]
    /\ cc[p].userId # 0
    /\ StoredProducts(SessionKeyOf(cc[p])) = {} )
  => /\ cache' = cache
     /\ cc'[p].pc = "done" /\ cc'[p].result = "ok"
     /\ cc'[p].cart = Stored(UserKeyOf(cc[p]))

\* C30: mergeCart writes the merged cart under the user key before it deletes
\* the session key, so with no other writer on the two keys, at every
\* intermediate state of a merge every product that was in the session cart
\* is a line of the stored session cart or of the stored user cart; and once
\* a merge has completed, repeating it with the same ids writes nothing and
\* returns the same user cart.
C30_MergeLosesNothing ==
  /\ [](C30_NothingLost /\ C30_Completed)
  /\ [][\A p \in Procs : C30_SaveBeforeClear(p) /\ C30_RepeatIsNoOp(p)]_vars

\* A merge has saved a user cart of two lines, the user's own and the
\* session's, and the session cart is still stored: the state in which a
\* merge that stops leaves the cache.
C30_Witness ==
  \E p \in Procs :
    /\ cc[p].op = "merge" /\ cc[p].pc = "merge_clear"
    /\ SessionKeyOf(cc[p]) \in DOMAIN cache
    /\ UserKeyOf(cc[p]) \in DOMAIN cache
    /\ Len(cache[SessionKeyOf(cc[p])].items) = 1
    /\ Len(cache[UserKeyOf(cc[p])].items) = 2
    /\ cache[UserKeyOf(cc[p])].items[2].product_id =
         cache[SessionKeyOf(cc[p])].items[1].product_id

====
